---- MODULE Spec2Model ----
(***************************************************************************)
(* Verification model of the math-learning-tool repository:                *)
(*   - the scene-state / layout-safety engine (core/scene_state_manager.py)*)
(*   - the LangGraph workflow orchestrator                                 *)
(*     (backend/.../infrastructure/agents/langgraph_engine.py and nodes/)  *)
(*                                                                         *)
(*   - the tool-calling visualization agent and its code builder           *)
(*     (agents/visualization_v2.py, core/manim_builder.py)                 *)
(*   - the code quality analyzer and should_skip_review                    *)
(*     (core/agent_coordinator.py)                                         *)
(*   - the execute-and-debug loops of the engines and of the use case      *)
(*     (core/engine.py, core/engine_v2.py,                                 *)
(*      backend/.../application/use_cases/process_problem.py)              *)
(*                                                                         *)
(* Coordinates are exact integers in units of 1/180 scene unit, so that    *)
(* every constant of the source (6.0, 2.5, 0.5, 0.3), every size the       *)
(* builder estimates (font_size / 36, chars * font_size / 72) and every    *)
(* half of a sampled size is an integer.                                   *)
(***************************************************************************)
EXTENDS Integers, Sequences, FiniteSets, TLC

VARIABLES
    \* ---- SceneStateManager ----
    elements,      \* self.elements: name -> SceneElement
    current_step,  \* self.current_step
    history,       \* self.history: the snapshots next_step() pushed
    ret,           \* the value returned by the last manager call
    session_calls, \* manager calls made so far in a stepping session
    \* ---- LangGraph workflow ----
    pc,            \* node the graph runs next, "END", or "returned"
    st,            \* the WorkflowState dict
    problem,       \* features of problem_text the classifier inspects
    trace,         \* per-run counters of node invocations and environment facts
    last,          \* the node that ran last and how its collaborator call ended
    result,        \* the dict process_problem returns
    \* ---- VisualizationAgentV2 ----
    agent,         \* self.builder and the generate_visualization_code calls
    \* ---- a second SceneStateManager ----
    twin,          \* the other manager instance and the call it still has to make
    \* ---- BoundingBox.overlaps on floats ----
    float_boxes,   \* two boxes, a margin and the results of the overlap calls
    \* ---- ManimCodeBuilder ----
    self_operations, \* self.operations
    returned,      \* the value returned by the last builder call
    \* ---- engines, use case and coordinator ----
    engine         \* the object under study: its attributes and its calls in flight

sceneVars == <<elements, current_step, history, ret, session_calls>>
wfVars == <<pc, st, problem, trace, last, result>>
restVars == <<twin, float_boxes, self_operations, returned, engine>>
vars == <<elements, current_step, history, ret, session_calls, pc, st, problem,
          trace, last, result, agent, twin, float_boxes,
          self_operations, returned, engine>>

\* No second manager, no overlap call on floats, no builder and no engine
\* take part.
RestIdle ==
    /\ twin = <<>>
    /\ float_boxes = <<>>
    /\ self_operations = <<>>
    /\ returned = <<>>
    /\ engine = <<>>

----------------------------------------------------------------------------
(* Bounds and sampled inputs                                               *)

MaxNames == 2
MaxStep == 1
MaxCount == 5
MaxCalls == 3
MaxSessionCalls == 5

Names == 1..MaxNames
ElementTypes == {"text"}
\* "left" is a Zone member without an entry in ZONE_BOUNDS.
Zones == {"top", "center", "left"}
\* <<estimated_width, estimated_height>>: 5.0 x 0.8 (wide: a second one only
\* fits above or below the first) and 1.0 x 2.0 (taller than the top zone).
Sizes == {<<900, 144>>, <<180, 360>>}

----------------------------------------------------------------------------
(* Geometry: BoundingBox                                                   *)

MARGIN == 54

BoundingBox(x_min, y_min, x_max, y_max) ==
    [x_min |-> x_min, y_min |-> y_min, x_max |-> x_max, y_max |-> y_max]

width(b) == b.x_max - b.x_min

height(b) == b.y_max - b.y_min

center(b) == <<(b.x_min + b.x_max) \div 2, (b.y_min + b.y_max) \div 2>>

overlaps(self, other, margin) ==
    ~ (\/ self.x_max + margin < other.x_min
       \/ self.x_min - margin > other.x_max
       \/ self.y_max + margin < other.y_min
       \/ self.y_min - margin > other.y_max)

ZONE_BOUNDS ==
    [top    |-> BoundingBox(-1080, 450, 1080, 720),
     center |-> BoundingBox(-1080, -360, 1080, 360),
     bottom |-> BoundingBox(-1080, -720, 1080, -450)]

KnownZones == DOMAIN ZONE_BOUNDS

bbox_in_zone(bbox, zone_bbox) ==
    /\ bbox.x_min >= zone_bbox.x_min
    /\ bbox.x_max <= zone_bbox.x_max
    /\ bbox.y_min >= zone_bbox.y_min
    /\ bbox.y_max <= zone_bbox.y_max

----------------------------------------------------------------------------
(* SceneStateManager                                                       *)

SceneElement(name, element_type, zone, bbox, persistent, step) ==
    [name |-> name, element_type |-> element_type, zone |-> zone, bbox |-> bbox,
     persistent |-> persistent, created_at_step |-> step]

Live == DOMAIN elements

get_element(name) == elements[name]

list_elements(zone) == {n \in Live : get_element(n).zone = zone}

BoxAt(x, y, w, h) ==
    BoundingBox(x - w \div 2, y - h \div 2, x + w \div 2, y + h \div 2)

\* Variant: a sixth candidate, in the upper left corner of the zone.
candidates_with_corner(zone_bbox, w, h) ==
    LET c == center(zone_bbox) IN
    << <<c[1], c[2]>>,
       <<zone_bbox.x_min + w \div 2 + 90, c[2]>>,
       <<zone_bbox.x_max - w \div 2 - 90, c[2]>>,
       <<c[1], zone_bbox.y_max - h \div 2 - 54>>,
       <<c[1], zone_bbox.y_min + h \div 2 + 54>>,
       <<zone_bbox.x_min + w \div 2 + 90, zone_bbox.y_max - h \div 2 - 54>> >>

candidates(zone_bbox, w, h) ==
    LET c == center(zone_bbox) IN
    << <<c[1], c[2]>>,
       <<zone_bbox.x_min + w \div 2 + 90, c[2]>>,
       <<zone_bbox.x_max - w \div 2 - 90, c[2]>>,
       <<c[1], zone_bbox.y_max - h \div 2 - 54>>,
       <<c[1], zone_bbox.y_min + h \div 2 + 54>> >>

\* The loop over the candidate centres, from the i-th on: the first box that
\* lies in the zone and overlaps none of the existing elements, or None.
\* Optional[BoundingBox] is a set holding zero or one box; existing is the
\* set of names, in the dict els, of the elements of the zone.
RECURSIVE first_safe(_, _, _, _, _, _, _)
first_safe(els, cands, i, w, h, zone_bbox, existing) ==
    IF i > Len(cands) THEN {}
    ELSE LET candidate_bbox == BoxAt(cands[i][1], cands[i][2], w, h) IN
         IF ~ bbox_in_zone(candidate_bbox, zone_bbox)
         THEN first_safe(els, cands, i + 1, w, h, zone_bbox, existing)
         ELSE IF \E n \in existing :
                    overlaps(candidate_bbox, els[n].bbox, MARGIN)
         THEN first_safe(els, cands, i + 1, w, h, zone_bbox, existing)
         ELSE {candidate_bbox}

\* _calculate_safe_position of a manager whose elements dict is els.
safe_position(els, zone, w, h) ==
    IF zone \notin KnownZones THEN {}
    ELSE
      LET zone_bbox == ZONE_BOUNDS[zone]
          existing_elements == {n \in DOMAIN els : els[n].zone = zone}
          c == center(zone_bbox)
      IN IF existing_elements = {} THEN {BoxAt(c[1], c[2], w, h)}
         ELSE first_safe(els, candidates(zone_bbox, w, h), 1, w, h, zone_bbox,
                         existing_elements)

\* Variant: the candidate loop forgets the overlap test.
calculate_safe_position_no_overlap_test(zone, w, h) ==
    IF zone \notin KnownZones THEN {}
    ELSE
      LET zone_bbox == ZONE_BOUNDS[zone]
          c == center(zone_bbox)
      IN IF list_elements(zone) = {} THEN {BoxAt(c[1], c[2], w, h)}
         ELSE first_safe(elements, candidates(zone_bbox, w, h), 1, w, h,
                         zone_bbox, {})

\* self._calculate_safe_position: the manager's own elements.
calculate_safe_position(zone, w, h) == safe_position(elements, zone, w, h)

\* self.elements.copy() is a shallow copy: an entry of a snapshot is the very
\* object self.elements holds under that name until that name is removed or
\* rebound.  shared records that identity.
Snapshot(els) == [n \in DOMAIN els |-> [elem |-> els[n], shared |-> TRUE]]

\* The name is unbound or rebound in self.elements: snapshots keep the old object.
Unshare(hist, names) ==
    [i \in 1..Len(hist) |->
        [n \in DOMAIN hist[i] |->
            IF n \in names THEN [hist[i][n] EXCEPT !.shared = FALSE]
            ELSE hist[i][n]]]

\* The live object under name is mutated in place: every alias sees it.
MutateShared(hist, name, elem) ==
    [i \in 1..Len(hist) |->
        [n \in DOMAIN hist[i] |->
            IF n = name /\ hist[i][n].shared
            THEN [hist[i][n] EXCEPT !.elem = elem]
            ELSE hist[i][n]]]

\* What a call hands back.  bbox and count are Optional values as sets: {} is
\* None, {v} is the value v.
Ret(op, name, zone, success, bbox, count) ==
    [op |-> op, name |-> name, zone |-> zone, success |-> success,
     bbox |-> bbox, count |-> count]

SceneInit ==
    /\ elements = <<>>
    /\ current_step = 0
    /\ history = <<>>
    /\ ret = Ret("init", 0, "none", TRUE, {}, {})
    /\ session_calls = 0

\* Variant: the step counter advances without a snapshot.
next_step_no_snapshot ==
    /\ current_step < MaxStep
    /\ current_step' = current_step + 1
    /\ ret' = Ret("next_step", 0, "none", TRUE, {}, {})
    /\ UNCHANGED <<elements, history>>

next_step ==
    /\ current_step < MaxStep
    /\ history' = Append(history, Snapshot(elements))
    /\ current_step' = current_step + 1
    /\ ret' = Ret("next_step", 0, "none", TRUE, {}, {})
    /\ UNCHANGED elements

\* Variant: a refused call forgets the element that had the name.
add_element_drops_on_failure(name, element_type, zone, w, h, persistent) ==
    LET suggested == calculate_safe_position(zone, w, h) IN
    IF suggested = {}
    THEN /\ ret' = Ret("add_element", name, zone, FALSE, {}, {})
         /\ elements' = [n \in Live \ {name} |-> elements[n]]
         /\ history' = Unshare(history, {name})
         /\ UNCHANGED current_step
    ELSE LET bb == CHOOSE b \in suggested : TRUE
             element == SceneElement(name, element_type, zone, bb,
                                     persistent, current_step)
         IN /\ elements' = [n \in Live \cup {name} |->
                               IF n = name THEN element ELSE elements[n]]
            /\ history' = Unshare(history, {name})
            /\ ret' = Ret("add_element", name, zone, TRUE, {bb}, {})
            /\ UNCHANGED current_step

\* Variant: the candidate loop starts at the first or at the second centre,
\* as if the order of the candidates were not fixed.
add_element_any_start(name, element_type, zone, w, h, persistent) ==
    LET suggested == calculate_safe_position(zone, w, h)
        pool == suggested \cup
                    (IF zone \in KnownZones
                     THEN first_safe(elements,
                                     candidates(ZONE_BOUNDS[zone], w, h), 2,
                                     w, h, ZONE_BOUNDS[zone],
                                     list_elements(zone))
                     ELSE {})
    IN IF suggested = {}
       THEN /\ ret' = Ret("add_element", name, zone, FALSE, {}, {})
            /\ UNCHANGED <<elements, current_step, history>>
       ELSE \E bb \in pool :
              LET element == SceneElement(name, element_type, zone, bb,
                                          persistent, current_step)
              IN /\ elements' = [n \in Live \cup {name} |->
                                    IF n = name THEN element ELSE elements[n]]
                 /\ history' = Unshare(history, {name})
                 /\ ret' = Ret("add_element", name, zone, TRUE, {bb}, {})
                 /\ UNCHANGED current_step

\* The error message of a refused call names the zone and the element.
add_element(name, element_type, zone, w, h, persistent) ==
    LET suggested == calculate_safe_position(zone, w, h) IN
    IF suggested = {}
    THEN /\ ret' = Ret("add_element", name, zone, FALSE, {}, {})
         /\ UNCHANGED <<elements, current_step, history>>
    ELSE LET bb == CHOOSE b \in suggested : TRUE
             element == SceneElement(name, element_type, zone, bb,
                                     persistent, current_step)
         IN /\ elements' = [n \in Live \cup {name} |->
                               IF n = name THEN element ELSE elements[n]]
            /\ history' = Unshare(history, {name})
            /\ ret' = Ret("add_element", name, zone, TRUE, {bb}, {})
            /\ UNCHANGED current_step

\* Variant: removing an absent name also reports True.
remove_element_always_true(name) ==
    IF name \in Live
    THEN /\ elements' = [n \in Live \ {name} |-> elements[n]]
         /\ history' = Unshare(history, {name})
         /\ ret' = Ret("remove_element", name, "none", TRUE, {}, {})
         /\ UNCHANGED current_step
    ELSE /\ ret' = Ret("remove_element", name, "none", TRUE, {}, {})
         /\ UNCHANGED <<elements, current_step, history>>

remove_element(name) ==
    IF name \in Live
    THEN /\ elements' = [n \in Live \ {name} |-> elements[n]]
         /\ history' = Unshare(history, {name})
         /\ ret' = Ret("remove_element", name, "none", TRUE, {}, {})
         /\ UNCHANGED current_step
    ELSE /\ ret' = Ret("remove_element", 0, "none", FALSE, {}, {})
         /\ UNCHANGED <<elements, current_step, history>>

\* Variant: the scene switch clears persistent elements as well.
clear_non_persistent_clears_all ==
    LET to_remove == Live IN
    /\ elements' = [n \in Live \ to_remove |-> elements[n]]
    /\ history' = Unshare(history, to_remove)
    /\ ret' = Ret("clear_non_persistent", 0, "none", TRUE, {}, {})
    /\ UNCHANGED current_step

\* The method has no return statement: the call evaluates to None, and the
\* number of removed elements only goes to the log.
clear_non_persistent ==
    LET to_remove == {n \in Live : ~ get_element(n).persistent} IN
    /\ elements' = [n \in Live \ to_remove |-> elements[n]]
    /\ history' = Unshare(history, to_remove)
    /\ ret' = Ret("clear_non_persistent", 0, "none", TRUE, {}, {})
    /\ UNCHANGED current_step

\* Variant: the source's bbox is assigned before the overlap test.
suggest_transform_target_assign_first(source_name, new_w, new_h) ==
    IF source_name \notin Live
    THEN /\ ret' = Ret("suggest_transform_target", 0, "none", FALSE, {}, {})
         /\ UNCHANGED <<elements, current_step, history>>
    ELSE LET source == get_element(source_name)
             c == center(source.bbox)
             new_bbox == BoxAt(c[1], c[2], new_w, new_h)
             clash == \E n \in Live \ {source_name} :
                          overlaps(new_bbox, get_element(n).bbox, MARGIN)
         IN /\ elements' = [elements EXCEPT ![source_name].bbox = new_bbox]
            /\ history' = MutateShared(history, source_name,
                                       [source EXCEPT !.bbox = new_bbox])
            /\ ret' = IF clash
                      THEN Ret("suggest_transform_target", 0, "none", FALSE, {}, {})
                      ELSE Ret("suggest_transform_target", source_name,
                               source.zone, TRUE, {new_bbox}, {})
            /\ UNCHANGED current_step

\* Variant: only the elements of the source's own zone are tested.
suggest_transform_target_same_zone(source_name, new_w, new_h) ==
    IF source_name \notin Live
    THEN /\ ret' = Ret("suggest_transform_target", 0, "none", FALSE, {}, {})
         /\ UNCHANGED <<elements, current_step, history>>
    ELSE LET source == get_element(source_name)
             c == center(source.bbox)
             new_bbox == BoxAt(c[1], c[2], new_w, new_h)
             clash == \E n \in list_elements(source.zone) \ {source_name} :
                          overlaps(new_bbox, get_element(n).bbox, MARGIN)
         IN IF clash
            THEN /\ ret' = Ret("suggest_transform_target", 0, "none", FALSE, {}, {})
                 /\ UNCHANGED <<elements, current_step, history>>
            ELSE /\ elements' = [elements EXCEPT ![source_name].bbox = new_bbox]
                 /\ history' = MutateShared(history, source_name,
                                            [source EXCEPT !.bbox = new_bbox])
                 /\ ret' = Ret("suggest_transform_target", source_name,
                               source.zone, TRUE, {new_bbox}, {})
                 /\ UNCHANGED current_step

suggest_transform_target(source_name, new_w, new_h) ==
    IF source_name \notin Live
    THEN /\ ret' = Ret("suggest_transform_target", 0, "none", FALSE, {}, {})
         /\ UNCHANGED <<elements, current_step, history>>
    ELSE LET source == get_element(source_name)
             c == center(source.bbox)
             new_bbox == BoxAt(c[1], c[2], new_w, new_h)
             clash == \E n \in Live \ {source_name} :
                          overlaps(new_bbox, get_element(n).bbox, MARGIN)
         IN IF clash
            THEN /\ ret' = Ret("suggest_transform_target", 0, "none", FALSE, {}, {})
                 /\ UNCHANGED <<elements, current_step, history>>
            ELSE /\ elements' = [elements EXCEPT ![source_name].bbox = new_bbox]
                 /\ history' = MutateShared(history, source_name,
                                            [source EXCEPT !.bbox = new_bbox])
                 /\ ret' = Ret("suggest_transform_target", source_name,
                               source.zone, TRUE, {new_bbox}, {})
                 /\ UNCHANGED current_step

----------------------------------------------------------------------------
(* LangGraph workflow: state, collaborators' outcomes                      *)

\* Fields of WorkflowState that routing or a node's control flow reads.
\* solution: "None" | "empty" ({}) | "some"; steps: "empty" | "list" |
\* "malformed" (JSON whose steps are not dicts); manim_code: "" | "code";
\* video_path: "None" | "path"; error_message: the set of lower-cased
\* substrings _classify_error looks for, plus "text" when it is non-empty.
initial_state ==
    [problem_type |-> "complex", problem_difficulty |-> "medium",
     analysis |-> "None", solution |-> "None", steps |-> "empty",
     is_valid |-> FALSE, solve_attempts |-> 0, manim_code |-> "",
     video_path |-> "None", error_message |-> {}, error_type |-> "none",
     debug_attempts |-> 0, status |-> "pending", fallback_content |-> "None"]

\* LangGraph merges the partial update a node returns into the state.
Merge(state, update) ==
    [k \in DOMAIN state |-> IF k \in DOMAIN update THEN update[k] ELSE state[k]]

\* An exception leaving a function is the value Raised.
Raised == [raised |-> TRUE]

ProblemTypes == {"simple", "complex"}
Difficulties == {"easy", "hard"}
Problems == [simple_arithmetic : BOOLEAN, geometry : BOOLEAN]
StepsValues == {"list", "malformed"}
Codes == {"", "code"}
ErrorMessages ==
    {{"text"}, {"text", "syntaxerror"}, {"text", "scene"},
     {"text", "nameerror", "scene"}}

\* What the LLM call of one node invocation does: it answers, raises, or is
\* still running when the wrapper's timeout expires.
LLMOutcomes(payloads) ==
    {[kind |-> "ok", payload |-> p] : p \in payloads}
        \cup {[kind |-> "raise", payload |-> "none"],
              [kind |-> "timeout", payload |-> "none"]}

\* The node returns without calling its collaborator.
NoCall == {[kind |-> "nocall", payload |-> "none"]}

Failures == {"raise", "timeout"}

\* _run_in_thread: future.result(timeout=...) raises when the call is late.
run_in_thread(value, out) == IF out.kind = "timeout" THEN Raised ELSE value

----------------------------------------------------------------------------
(* Nodes and their synchronous wrappers                                    *)

classifier_node(state, prob, out) ==
    IF prob.simple_arithmetic
    THEN [problem_type |-> "simple", problem_difficulty |-> "easy"]
    ELSE IF prob.geometry
    THEN [problem_type |-> "geometry", problem_difficulty |-> "medium"]
    ELSE IF out.kind = "ok"
    THEN [problem_type |-> out.payload[1], problem_difficulty |-> out.payload[2]]
    ELSE [problem_type |-> "complex", problem_difficulty |-> "medium"]

\* Variant: the wrapper has no try/except.
sync_classifier_uncaught(state, prob, out) ==
    run_in_thread(classifier_node(state, prob, out), out)

sync_classifier(state, prob, out) ==
    LET r == run_in_thread(classifier_node(state, prob, out), out) IN
    IF r = Raised
    THEN [problem_type |-> "complex", problem_difficulty |-> "medium"]
    ELSE r

understanding_node(state, out) ==
    IF out.kind = "ok" THEN [analysis |-> out.payload] ELSE [analysis |-> "empty"]

sync_understanding(state, out) ==
    LET r == run_in_thread(understanding_node(state, out), out) IN
    IF r = Raised THEN [analysis |-> "None"] ELSE r

solve_simple_node(state, out) ==
    IF out.kind = "ok"
    THEN [solution |-> out.payload[1], steps |-> out.payload[2], solve_attempts |-> 1]
    ELSE [solution |-> "empty", steps |-> "empty", solve_attempts |-> 1]

sync_solve_simple(state, out) ==
    LET r == run_in_thread(solve_simple_node(state, out), out) IN
    IF r = Raised THEN [solution |-> "None"] ELSE r

solving_node(state, out) ==
    IF out.kind = "ok"
    THEN [solution |-> out.payload[1], steps |-> out.payload[2],
          solve_attempts |-> state.solve_attempts + 1]
    ELSE [solution |-> "empty", steps |-> "empty",
          solve_attempts |-> state.solve_attempts + 1]

\* Variant: the wrapper writes back the count it read.
sync_solving_no_count(state, out) ==
    LET r == run_in_thread(solving_node(state, out), out) IN
    IF r = Raised
    THEN [solution |-> "None", solve_attempts |-> state.solve_attempts]
    ELSE Merge(r, [solve_attempts |-> state.solve_attempts])

sync_solving(state, out) ==
    LET r == run_in_thread(solving_node(state, out), out) IN
    IF r = Raised
    THEN [solution |-> "None", solve_attempts |-> state.solve_attempts + 1]
    ELSE Merge(r, [solve_attempts |-> state.solve_attempts + 1])

validator_node(state, out) ==
    IF state.solution \in {"None", "empty"} THEN [is_valid |-> FALSE]
    ELSE IF out.kind = "ok" THEN [is_valid |-> out.payload]
    ELSE [is_valid |-> TRUE]

sync_validator(state, out) ==
    LET r == run_in_thread(validator_node(state, out), out) IN
    IF r = Raised THEN [is_valid |-> TRUE] ELSE r

visualize_node(state, out) ==
    IF out.kind = "ok" THEN [manim_code |-> out.payload]
    ELSE [manim_code |-> "code", error_type |-> "structure",
          error_message |-> {"text"}]

sync_visualize(state, out) ==
    LET r == run_in_thread(visualize_node(state, out), out) IN
    IF r = Raised THEN [manim_code |-> ""] ELSE r

classify_error(error) ==
    IF "syntaxerror" \in error \/ "indentationerror" \in error THEN "syntax"
    ELSE IF "nameerror" \in error \/ "attributeerror" \in error THEN "runtime"
    ELSE IF "scene" \in error \/ "class" \in error THEN "structure"
    ELSE "runtime"

\* Variant: the success branch does not set status.
execute_node_no_status(state, out) ==
    IF state.manim_code = ""
    THEN [video_path |-> "None", error_message |-> {"text"},
          error_type |-> "structure"]
    ELSE IF out.payload.success
    THEN [video_path |-> "path", error_message |-> {}, error_type |-> "none"]
    ELSE [video_path |-> "None", error_message |-> out.payload.error_message,
          error_type |-> classify_error(out.payload.error_message)]

\* ManimExecutor.execute_code never raises; it reports success with a video
\* path or failure with a message.
execute_node(state, out) ==
    IF state.manim_code = ""
    THEN [video_path |-> "None", error_message |-> {"text"},
          error_type |-> "structure"]
    ELSE IF out.payload.success
    THEN [video_path |-> "path", error_message |-> {}, error_type |-> "none",
          status |-> "success"]
    ELSE [video_path |-> "None", error_message |-> out.payload.error_message,
          error_type |-> classify_error(out.payload.error_message)]

sync_execute(state, out) ==
    LET r == run_in_thread(execute_node(state, out), out) IN
    IF r = Raised
    THEN [video_path |-> "None", error_message |-> {},
          error_type |-> "runtime",
          debug_attempts |-> state.debug_attempts + 1]
    ELSE r

debug_node(state, out) ==
    IF out.kind = "ok"
    THEN [manim_code |-> out.payload, debug_attempts |-> state.debug_attempts + 1]
    ELSE [debug_attempts |-> state.debug_attempts + 1]

\* Variant: the wrapper adds one to the count the node already incremented.
sync_debug_double_count(state, out) ==
    LET r == run_in_thread(debug_node(state, out), out) IN
    IF r = Raised
    THEN [manim_code |-> state.manim_code,
          debug_attempts |-> state.debug_attempts + 1]
    ELSE Merge(r, [debug_attempts |-> r.debug_attempts + 1])

sync_debug(state, out) ==
    LET r == run_in_thread(debug_node(state, out), out) IN
    IF r = Raised
    THEN [manim_code |-> state.manim_code,
          debug_attempts |-> state.debug_attempts + 1]
    ELSE Merge(r, [debug_attempts |-> state.debug_attempts + 1])

\* step.get(...) raises when a step of the parsed JSON is not a dict.
fallback_node(state) ==
    IF state.steps = "malformed" THEN Raised
    ELSE [status |-> "fallback", fallback_content |-> "formatted"]

\* Variant: the wrapper has no try/except.
sync_fallback_uncaught(state) == fallback_node(state)

sync_fallback(state) ==
    LET r == fallback_node(state) IN
    IF r = Raised
    THEN [status |-> "fallback", fallback_content |-> "default"]
    ELSE r

----------------------------------------------------------------------------
(* Routing                                                                 *)

MAX_SOLVE_ATTEMPTS == 2
MAX_DEBUG_ATTEMPTS == 3

\* Variant: only problem_type is tested.
route_after_classify_type_only(state) ==
    IF state.problem_type = "simple" THEN "solve_simple" ELSE "understand"

route_after_classify(state) ==
    IF state.problem_type = "simple" \/ state.problem_difficulty = "easy"
    THEN "solve_simple"
    ELSE "understand"

route_after_validate(state) ==
    IF state.is_valid THEN "visualize"
    ELSE IF state.solve_attempts < MAX_SOLVE_ATTEMPTS THEN "solve"
    ELSE "visualize"

\* Variant: the ceiling test is > instead of >=.
route_after_execute_off_by_one(state) ==
    IF state.video_path # "None" THEN "END"
    ELSE IF state.debug_attempts > MAX_DEBUG_ATTEMPTS THEN "fallback"
    ELSE "debug"

\* Variant: a structure error leaves the debug loop at once.
route_after_execute_structure_to_fallback(state) ==
    IF state.video_path # "None" THEN "END"
    ELSE IF state.debug_attempts >= MAX_DEBUG_ATTEMPTS THEN "fallback"
    ELSE IF state.error_type = "structure" THEN "fallback"
    ELSE "debug"

\* Variant: a structure error sends the run back to visualize.
route_after_execute_structure_to_visualize(state) ==
    IF state.video_path # "None" THEN "END"
    ELSE IF state.debug_attempts >= MAX_DEBUG_ATTEMPTS THEN "fallback"
    ELSE IF state.error_type = "structure" THEN "visualize"
    ELSE "debug"

route_after_execute(state) ==
    IF state.video_path # "None" THEN "END"
    ELSE IF state.debug_attempts >= MAX_DEBUG_ATTEMPTS THEN "fallback"
    ELSE "debug"

----------------------------------------------------------------------------
(* The graph run (app.invoke) inside LangGraphEngine.process_problem       *)

ClassifyPayloads == ProblemTypes \X Difficulties
SolvePayloads == {<<"empty", "empty">>} \cup {<<"some", s>> : s \in StepsValues}
VideoResult(success, error_message) ==
    [success |-> success, error_message |-> error_message]

ExecuteOutcomes ==
    {[kind |-> "ok", payload |-> VideoResult(TRUE, {})],
     [kind |-> "timeout", payload |-> VideoResult(FALSE, {})]}
        \cup {[kind |-> "ok", payload |-> VideoResult(FALSE, m)] : m \in ErrorMessages}

NodeNames == {"classify", "understand", "solve_simple", "solve", "validate",
              "visualize", "execute", "debug", "fallback"}

initial_trace ==
    [classify |-> 0, understand |-> 0, solve_simple |-> 0, solve |-> 0,
     validate |-> 0, visualize |-> 0, execute |-> 0, debug |-> 0, fallback |-> 0,
     always_invalid |-> TRUE, exec_never_video |-> TRUE,
     exec_always_runtime |-> TRUE]

no_result == [status |-> "none", video_path |-> "None", error |-> "None",
              fallback_content |-> "None"]

WorkflowInit ==
    /\ pc = "classify"
    /\ st = initial_state
    /\ problem \in Problems
    /\ trace = initial_trace
    /\ last = [node |-> "none", kind |-> "none"]
    /\ result = no_result

Count(node) ==
    [trace EXCEPT ![node] = IF @ < MaxCount THEN @ + 1 ELSE MaxCount]

\* One superstep: the node's update is merged and the outgoing edge is taken;
\* an exception leaving the wrapper leaves app.invoke.
Superstep(node, out, update, next, tr) ==
    /\ last' = [node |-> node, kind |-> out.kind]
    /\ trace' = tr
    /\ IF update = Raised
       THEN /\ pc' = "raised"
            /\ st' = st
       ELSE /\ st' = Merge(st, update)
            /\ pc' = next
    /\ UNCHANGED <<problem, result>>
    /\ UNCHANGED sceneVars
    /\ UNCHANGED agent
    /\ UNCHANGED restVars

Classify ==
    /\ pc = "classify"
    /\ \E out \in (IF problem.simple_arithmetic \/ problem.geometry
                  THEN NoCall ELSE LLMOutcomes(ClassifyPayloads)) :
         LET u == sync_classifier(st, problem, out) IN
         Superstep("classify", out, u, route_after_classify(Merge(st, u)),
                   Count("classify"))

Understand ==
    /\ pc = "understand"
    /\ \E out \in LLMOutcomes({"empty", "some"}) :
         Superstep("understand", out, sync_understanding(st, out), "solve",
                   Count("understand"))

SolveSimple ==
    /\ pc = "solve_simple"
    /\ \E out \in LLMOutcomes(SolvePayloads) :
         Superstep("solve_simple", out, sync_solve_simple(st, out), "validate",
                   Count("solve_simple"))

Solve ==
    /\ pc = "solve"
    /\ \E out \in LLMOutcomes(SolvePayloads) :
         Superstep("solve", out, sync_solving(st, out), "validate",
                   Count("solve"))

Validate ==
    /\ pc = "validate"
    /\ \E out \in (IF st.solution \in {"None", "empty"}
                  THEN NoCall ELSE LLMOutcomes(BOOLEAN)) :
         LET u == sync_validator(st, out) IN
         Superstep("validate", out, u, route_after_validate(Merge(st, u)),
                   [Count("validate") EXCEPT
                       !.always_invalid = @ /\ ~ Merge(st, u).is_valid])

Visualize ==
    /\ pc = "visualize"
    /\ \E out \in LLMOutcomes(Codes) :
         Superstep("visualize", out, sync_visualize(st, out), "execute",
                   Count("visualize"))

\* The renderer is only reached with non-empty code and never raises, so the
\* only exception in the execute step is the wrapper's timeout.
Execute ==
    /\ pc = "execute"
    /\ \E out \in (IF st.manim_code = "" THEN NoCall ELSE ExecuteOutcomes) :
         LET u == sync_execute(st, out)
             s2 == Merge(st, u) IN
         Superstep("execute", out, u, route_after_execute(s2),
                   [Count("execute") EXCEPT
                       !.exec_never_video = @ /\ s2.video_path = "None",
                       !.exec_always_runtime =
                           /\ @
                           /\ out.kind \in {"ok", "nocall"}
                           /\ s2.video_path = "None"
                           /\ s2.error_type = "runtime"])

Debug ==
    /\ pc = "debug"
    /\ \E out \in LLMOutcomes(Codes) :
         Superstep("debug", out, sync_debug(st, out), "execute", Count("debug"))

Fallback ==
    /\ pc = "fallback"
    /\ Superstep("fallback",
                 [kind |-> IF fallback_node(st) = Raised THEN "raise" ELSE "nocall",
                  payload |-> "none"],
                 sync_fallback(st), "END", Count("fallback"))

\* process_problem builds its result from the final state, or from the
\* exception app.invoke raised.
Return ==
    /\ pc \in {"END", "raised"}
    /\ pc' = "returned"
    /\ result' =
         IF pc = "raised"
         THEN [status |-> "failed", video_path |-> "None", error |-> "str(e)",
               fallback_content |-> "None"]
         ELSE [status |-> st.status,
               video_path |-> st.video_path,
               error |-> IF st.status = "failed" THEN st.error_message ELSE "None",
               fallback_content |-> st.fallback_content]
    /\ UNCHANGED <<st, problem, trace, last>>
    /\ UNCHANGED sceneVars
    /\ UNCHANGED agent
    /\ UNCHANGED restVars

WorkflowNext ==
    \/ Classify
    \/ Understand
    \/ SolveSimple
    \/ Solve
    \/ Validate
    \/ Visualize
    \/ Execute
    \/ Debug
    \/ Fallback
    \/ Return

\* No VisualizationAgentV2 takes part.
AgentIdle == agent = <<>>

\* A run of process_problem; no scene manager takes part.
RunInit ==
    /\ WorkflowInit
    /\ SceneInit
    /\ AgentIdle
    /\ RestIdle

SpecWorkflow == RunInit /\ [][WorkflowNext]_vars

\* Steps run one at a time and every collaborator call returns, raises or
\* times out, so an enabled step is eventually taken.
SpecWorkflowFair == SpecWorkflow /\ WF_vars(WorkflowNext)

\* The renderer subprocess never exits.  subprocess.run has no timeout, so
\* execute_code never returns and the worker thread never ends;
\* future.result raises after 60 s, but leaving the with-block of
\* _run_in_thread joins the worker (shutdown(wait=True)), so neither a value
\* nor the exception ever reaches _sync_execute.
ExecuteHang ==
    /\ pc = "execute"
    /\ st.manim_code # ""
    /\ pc' = "hung"
    /\ last' = [node |-> "execute", kind |-> "hang"]
    /\ trace' = Count("execute")
    /\ UNCHANGED <<st, problem, result>>
    /\ UNCHANGED sceneVars
    /\ UNCHANGED agent
    /\ UNCHANGED restVars

WorkflowHangNext ==
    \/ WorkflowNext
    \/ ExecuteHang

\* Runs in which the renderer may also hang.
SpecWorkflowHang ==
    RunInit /\ [][WorkflowHangNext]_vars /\ WF_vars(WorkflowHangNext)

----------------------------------------------------------------------------
(* A session of one SceneStateManager                                      *)

AddElementIn(names, zones, sizes, persistents) ==
    \E name \in names, t \in ElementTypes, zone \in zones,
       size \in sizes, persistent \in persistents :
        /\ add_element(name, t, zone, size[1], size[2], persistent)
        /\ UNCHANGED wfVars
        /\ UNCHANGED agent
        /\ UNCHANGED restVars

RemoveElementIn(names) ==
    \E name \in names :
        /\ remove_element(name)
        /\ UNCHANGED wfVars
        /\ UNCHANGED agent
        /\ UNCHANGED restVars

ClearNonPersistent ==
    /\ clear_non_persistent
    /\ UNCHANGED wfVars
    /\ UNCHANGED agent
    /\ UNCHANGED restVars

NextStepIn ==
    /\ next_step
    /\ UNCHANGED wfVars
    /\ UNCHANGED agent
    /\ UNCHANGED restVars

SuggestTransformTargetIn(names, sizes) ==
    \E name \in names, size \in sizes :
        /\ suggest_transform_target(name, size[1], size[2])
        /\ UNCHANGED wfVars
        /\ UNCHANGED agent
        /\ UNCHANGED restVars

\* Sessions of placements, removals and scene clears, of any length.
AddElement ==
    /\ AddElementIn(Names, Zones, Sizes, BOOLEAN)
    /\ UNCHANGED session_calls

RemoveElement ==
    /\ RemoveElementIn(Names)
    /\ UNCHANGED session_calls

ClearScene ==
    /\ ClearNonPersistent
    /\ UNCHANGED session_calls

SceneNext ==
    \/ AddElement
    \/ RemoveElement
    \/ ClearScene

\* Sessions that also step and transform: at most MaxSessionCalls manager
\* calls, over fewer inputs.
\* "left" is a Zone member without an entry in ZONE_BOUNDS.
StepZones == {"center", "left"}
StepSizes == {<<180, 144>>, <<900, 144>>}

CountCall ==
    /\ session_calls < MaxSessionCalls
    /\ session_calls' = session_calls + 1

AddElementStep ==
    /\ CountCall
    /\ AddElementIn(Names, StepZones, StepSizes, {FALSE})

RemoveElementStep ==
    /\ CountCall
    /\ RemoveElementIn(Names)

ClearSceneStep ==
    /\ CountCall
    /\ ClearNonPersistent

NextStep ==
    /\ CountCall
    /\ NextStepIn

SuggestTransformTarget ==
    /\ CountCall
    /\ SuggestTransformTargetIn(Names, StepSizes)

SceneStepNext ==
    \/ AddElementStep
    \/ RemoveElementStep
    \/ ClearSceneStep
    \/ NextStep
    \/ SuggestTransformTarget

\* No process_problem call is in progress: there is no workflow state.
WorkflowIdle ==
    /\ pc = "idle"
    /\ st = <<>>
    /\ problem = <<>>
    /\ trace = <<>>
    /\ last = <<>>
    /\ result = <<>>

\* A fresh manager; no workflow run takes part.
SessionInit ==
    /\ SceneInit
    /\ WorkflowIdle
    /\ AgentIdle
    /\ RestIdle

SpecScene == SessionInit /\ [][SceneNext]_vars

SpecSceneSteps == SessionInit /\ [][SceneStepNext]_vars

\* Sessions that place elements in two zones and transform them, of any
\* length.  Every element is placed as 1.0 x 0.8;
\* <<new_content_width, new_content_height>> is 5.0 x 0.8 or 1.0 x 5.2 (a box
\* at the centre of the centre zone that reaches into the top zone).
TransformSizes == {<<900, 144>>, <<180, 936>>}

TransformNext ==
    \/ /\ AddElementIn(Names, {"top", "center"}, {<<180, 144>>}, {FALSE})
       /\ UNCHANGED session_calls
    \/ /\ RemoveElementIn(Names)
       /\ UNCHANGED session_calls
    \/ /\ SuggestTransformTargetIn(Names, TransformSizes)
       /\ UNCHANGED session_calls

SpecTransform == SessionInit /\ [][TransformNext]_vars

\* Sessions in the centre zone, of any length, over one name more than
\* _calculate_safe_position has candidate slots.  Odd names are 1.0 x 0.4,
\* even names 2.0 x 0.4 (<<estimated_width, estimated_height>>); five such
\* boxes fit the zone side by side and one above the other.
SlotNames == 1..(Len(candidates(ZONE_BOUNDS["center"], 0, 0)) + 1)

SlotNext ==
    \/ /\ \/ AddElementIn({n \in SlotNames : n % 2 = 1}, {"center"},
                           {<<180, 72>>}, {FALSE})
          \/ AddElementIn({n \in SlotNames : n % 2 = 0}, {"center"},
                           {<<360, 72>>}, {FALSE})
       /\ UNCHANGED session_calls
    \/ /\ RemoveElementIn(SlotNames)
       /\ UNCHANGED session_calls
    \/ /\ ClearNonPersistent
       /\ UNCHANGED session_calls

SpecSlots == SessionInit /\ [][SlotNext]_vars

----------------------------------------------------------------------------
(* Two SceneStateManager instances given the same calls                    *)

MaxTwinCalls == 4

\* The calls on a manager, with their parameters.
TwinCalls ==
    {[op |-> "add_element", name |-> n, zone |-> z, size |-> s] :
         n \in Names, z \in StepZones, s \in StepSizes}
        \cup {[op |-> "remove_element", name |-> n, zone |-> "none",
                size |-> <<0, 0>>] : n \in Names}
        \cup {[op |-> o, name |-> 0, zone |-> "none", size |-> <<0, 0>>] :
                  o \in {"clear_non_persistent", "next_step"}}
        \cup {[op |-> "suggest_transform_target", name |-> n, zone |-> "none",
                size |-> s] : n \in Names, s \in StepSizes}

\* The manager the variables elements, current_step, history and ret hold.
Manager ==
    [elements |-> elements, current_step |-> current_step,
     history |-> history, ret |-> ret]

\* The call c on the manager in hand.
Perform(c) ==
    \/ /\ c.op = "add_element"
       /\ add_element(c.name, "text", c.zone, c.size[1], c.size[2], FALSE)
    \/ /\ c.op = "remove_element"
       /\ remove_element(c.name)
    \/ /\ c.op = "clear_non_persistent"
       /\ clear_non_persistent
    \/ /\ c.op = "next_step"
       /\ next_step
    \/ /\ c.op = "suggest_transform_target"
       /\ suggest_transform_target(c.name, c.size[1], c.size[2])

\* Two fresh managers.  The scene variables hold the one that is called
\* next, twin.manager the other one.
TwinInit ==
    /\ SceneInit
    /\ WorkflowIdle
    /\ AgentIdle
    /\ twin = [manager |-> [elements |-> <<>>, current_step |-> 0,
                            history |-> <<>>,
                            ret |-> Ret("init", 0, "none", TRUE, {}, {})],
               call |-> [op |-> "none", name |-> 0, zone |-> "none",
                         size |-> <<0, 0>>],
               turn |-> "lead"]
    /\ float_boxes = <<>>
    /\ self_operations = <<>>
    /\ returned = <<>>
    /\ engine = <<>>

\* The first manager makes a call.
TwinLead ==
    /\ twin.turn = "lead"
    /\ session_calls < MaxTwinCalls
    /\ session_calls' = session_calls + 1
    /\ \E c \in TwinCalls :
           /\ Perform(c)
           /\ twin' = [twin EXCEPT !.call = c, !.turn = "swap"]
    /\ UNCHANGED <<wfVars, agent, float_boxes, self_operations, returned,
                 engine>>

\* The other manager is taken in hand.
TwinSwap ==
    /\ twin.turn = "swap"
    /\ elements' = twin.manager.elements
    /\ current_step' = twin.manager.current_step
    /\ history' = twin.manager.history
    /\ ret' = twin.manager.ret
    /\ twin' = [twin EXCEPT !.manager = Manager, !.turn = "follow"]
    /\ UNCHANGED <<session_calls, wfVars, agent, float_boxes, self_operations, returned,
                 engine>>

\* The second manager makes the same call with the same parameters.
TwinFollow ==
    /\ twin.turn = "follow"
    /\ Perform(twin.call)
    /\ twin' = [twin EXCEPT !.turn = "lead"]
    /\ UNCHANGED <<session_calls, wfVars, agent, float_boxes, self_operations, returned,
                 engine>>

TwinNext ==
    \/ TwinLead
    \/ TwinSwap
    \/ TwinFollow

SpecTwins == TwinInit /\ [][TwinNext]_vars

----------------------------------------------------------------------------
(* BoundingBox.overlaps and check_overlap in floating point                *)

\* Coordinates, sizes and margins of the program are binary floating-point
\* numbers, and every sum or difference is rounded to the nearest one (ties
\* to the even significand).  Here a float is an integer number of units,
\* one unit being the default margin, with a significand of MantissaBits
\* bits: the integers below 2^MantissaBits and their doublings.
MantissaBits == 3

MaxCoord == 16

\* The spacing of the floats around the magnitude m.
RECURSIVE ulp(_, _)
ulp(m, u) == IF m < (2 ^ MantissaBits) * u THEN u ELSE ulp(m, 2 * u)

\* The float nearest to the exact value x.
fl(x) ==
    LET m == IF x < 0 THEN -x ELSE x
        u == ulp(m, 1)
        q == m \div u
        r == m % u
        up == (2 * r > u) \/ (2 * r = u /\ q % 2 = 1)
        n == (IF up THEN q + 1 ELSE q) * u
    IN IF x < 0 THEN -n ELSE n

\* overlaps as the interpreter evaluates it: each of self.x_max + margin,
\* self.x_min - margin, self.y_max + margin and self.y_min - margin is
\* rounded before it is compared.
float_overlaps(self, other, margin) ==
    ~ \/ fl(self.x_max + margin) < other.x_min
      \/ fl(self.x_min - margin) > other.x_max
      \/ fl(self.y_max + margin) < other.y_min
      \/ fl(self.y_min - margin) > other.y_max

\* check_overlap of a manager whose elements dict is els.  The margin is
\* the default of overlaps, 0.3: one unit.
check_overlap(els, name1, name2) ==
    IF name1 \notin DOMAIN els \/ name2 \notin DOMAIN els THEN FALSE
    ELSE float_overlaps(els[name1].bbox, els[name2].bbox, 1)

\* Boxes whose corners are floats up to MaxCoord, x_min < x_max, at one of
\* two heights.
FloatBoxes ==
    LET coords == {v \in 0..MaxCoord : fl(v) = v} IN
    {bb \in {BoundingBox(x1, y1, x2, y1 + 4) :
                x1 \in coords, x2 \in coords, y1 \in {0, 6}} :
        bb.x_min < bb.x_max}

OverlapsInit ==
    /\ SceneInit
    /\ WorkflowIdle
    /\ AgentIdle
    /\ twin = <<>>
    /\ float_boxes \in
           {[a |-> a, b |-> b, margin |-> m, called |-> "none",
             forward |-> FALSE, backward |-> FALSE] :
                a \in FloatBoxes, b \in FloatBoxes, m \in {0, 1, 2}}
    /\ self_operations = <<>>
    /\ returned = <<>>
    /\ engine = <<>>

\* a.overlaps(b, margin) and b.overlaps(a, margin).
Overlaps ==
    /\ float_boxes.called = "none"
    /\ float_boxes' =
           [float_boxes EXCEPT
               !.called = "overlaps",
               !.forward = float_overlaps(float_boxes.a, float_boxes.b,
                                          float_boxes.margin),
               !.backward = float_overlaps(float_boxes.b, float_boxes.a,
                                           float_boxes.margin)]
    /\ UNCHANGED <<sceneVars, wfVars, agent, twin, self_operations, returned,
                 engine>>

\* check_overlap(n1, n2) and check_overlap(n2, n1) on a manager that holds
\* an element with box a under the name 1 and one with box b under the name
\* 2 (the first element of a zone is placed at the zone centre with the
\* width and height of the call, without any test, so elements of two zones
\* may have any two boxes); the name 3 is not live.
CheckOverlap ==
    /\ float_boxes.called = "none"
    /\ \E n1 \in {1, 2}, n2 \in {1, 2, 3} :
           LET els == [n \in {1, 2} |->
                          SceneElement(n, "text",
                                       IF n = 1 THEN "center" ELSE "top",
                                       IF n = 1 THEN float_boxes.a
                                       ELSE float_boxes.b, FALSE, 0)]
           IN
           float_boxes' =
               [float_boxes EXCEPT
                   !.called = "check_overlap",
                   !.forward = check_overlap(els, n1, n2),
                   !.backward = check_overlap(els, n2, n1)]
    /\ UNCHANGED <<sceneVars, wfVars, agent, twin, self_operations, returned,
                 engine>>

OverlapsNext ==
    \/ Overlaps
    \/ CheckOverlap

SpecOverlaps == OverlapsInit /\ [][OverlapsNext]_vars

----------------------------------------------------------------------------
(* ManimCodeBuilder, as pure functions of a builder value                  *)

\* A builder: its state manager's elements, for each element the request
\* whose operation created it, and self.operations.  No session below calls
\* start_step, so the manager's current_step stays 0 and its history empty.
ManimCodeBuilder == [elements |-> <<>>, request |-> <<>>, operations |-> <<>>]

ManimOperation(operation_type, affects_elements, request) ==
    [operation_type |-> operation_type, affects_elements |-> affects_elements,
     request |-> request]

min(a, b) == IF a < b THEN a ELSE b

Range(seq) == {seq[i] : i \in DOMAIN seq}

\* estimated_width = min(char_count * font_size / 72, 10) and
\* estimated_height = font_size / 36, in units of 1/180.
create_text(b, request, name, char_count, zone, font_size, persistent) ==
    LET estimated_width == min((char_count * font_size * 5) \div 2, 1800)
        estimated_height == font_size * 5
        suggested == safe_position(b.elements, zone, estimated_width,
                                   estimated_height)
    IN IF suggested = {} THEN b
       ELSE LET bb == CHOOSE x \in suggested : TRUE
                element == SceneElement(name, "text", zone, bb, persistent, 0)
            IN [elements |-> [n \in DOMAIN b.elements \cup {name} |->
                                 IF n = name THEN element ELSE b.elements[n]],
                request |-> [n \in DOMAIN b.request \cup {name} |->
                                IF n = name THEN request ELSE b.request[n]],
                operations |-> Append(b.operations,
                                      ManimOperation("create_text", <<name>>,
                                                     request))]

\* Write and FadeOut; FadeOut removes its targets from the state manager.
play_animation(b, request, animation_type, targets) ==
    LET gone == IF animation_type = "FadeOut" THEN Range(targets) ELSE {} IN
    [elements |-> [n \in DOMAIN b.elements \ gone |-> b.elements[n]],
     request |-> [n \in DOMAIN b.request \ gone |-> b.request[n]],
     operations |-> Append(b.operations,
                           ManimOperation("animation", targets, request))]

animate_property(b, request, target) ==
    IF target \notin DOMAIN b.elements THEN b
    ELSE [b EXCEPT !.operations =
              Append(@, ManimOperation("animate_property", <<target>>, request))]

wait(b, request) ==
    [b EXCEPT !.operations = Append(@, ManimOperation("wait", <<>>, request))]

\* The program text: one fragment per operation, then the layout report of
\* the elements still live.
build(b) ==
    [operations |-> b.operations,
     report |-> {[name |-> n, request |-> b.request[n]] : n \in DOMAIN b.elements}]

----------------------------------------------------------------------------
(* VisualizationAgentV2                                                    *)

\* One entry of the "operations" list of an LLM response, or one builder
\* call of _intelligent_generate.
Operation(tool, name, char_count, zone, font_size, persistent, type, targets) ==
    [tool |-> tool, name |-> name, char_count |-> char_count, zone |-> zone,
     font_size |-> font_size, persistent |-> persistent, type |-> type,
     targets |-> targets]

CreateText(name, char_count, zone, font_size, persistent) ==
    Operation("create_text", name, char_count, zone, font_size, persistent,
              "none", <<>>)

PlayAnimation(type, targets) ==
    Operation("play_animation", "none", 0, "none", 0, FALSE, type, targets)

AnimateProperty(target) ==
    Operation("animate_property", target, 0, "none", 0, FALSE, "none", <<>>)

Wait == Operation("wait", "none", 0, "none", 0, FALSE, "none", <<>>)

\* _execute_create_text: any zone string but "top" and "bottom" means CENTER.
zone_of(zone_str) ==
    IF zone_str = "top" THEN "top"
    ELSE IF zone_str = "bottom" THEN "bottom"
    ELSE "center"

\* One iteration of the loop of _execute_operations.
execute_operation(b, request, op) ==
    IF op.tool = "create_text"
    THEN create_text(b, request, op.name, op.char_count, zone_of(op.zone),
                     op.font_size, op.persistent)
    ELSE IF op.tool = "play_animation"
    THEN play_animation(b, request, op.type, op.targets)
    ELSE IF op.tool = "animate_property"
    THEN animate_property(b, request, op.name)
    ELSE IF op.tool = "wait"
    THEN wait(b, request)
    ELSE b

RECURSIVE apply_operations(_, _, _, _)
apply_operations(b, request, operations, i) ==
    IF i > Len(operations) THEN b
    ELSE apply_operations(execute_operation(b, request, operations[i]),
                          request, operations, i + 1)

\* What a call leaves in self.builder and the code it returns.
Generated(b) == [builder |-> b, code |-> build(b)]

\* The loop runs on whatever self.builder is bound to when the call resumes.
execute_operations(b, request, operations) ==
    Generated(apply_operations(b, request, operations, 1))

\* The builder calls of _intelligent_generate for a request with a problem
\* text of 5 characters, no solution steps and no final answer (the default
\* answer has 2 characters).
intelligent_operations ==
    << CreateText("problem_title", 2, "top", 28, FALSE),
       PlayAnimation("Write", <<"problem_title">>),
       Wait,
       CreateText("problem_text", 5, "center", 32, TRUE),
       PlayAnimation("Write", <<"problem_text">>),
       Wait,
       PlayAnimation("FadeOut", <<"problem_title">>),
       AnimateProperty("problem_text"),
       AnimateProperty("problem_text"),
       Wait,
       CreateText("answer_title", 2, "top", 36, FALSE),
       PlayAnimation("Write", <<"answer_title">>),
       CreateText("final_answer", 2, "center", 48, FALSE),
       PlayAnimation("Write", <<"final_answer">>),
       Wait,
       CreateText("end_text", 4, "center", 40, FALSE),
       PlayAnimation("FadeOut", <<"answer_title", "final_answer", "problem_text">>),
       Wait,
       PlayAnimation("Write", <<"end_text">>),
       Wait >>

\* _intelligent_generate rebinds self.builder to a fresh builder first.
intelligent_generate(request) ==
    Generated(apply_operations(ManimCodeBuilder, request, intelligent_operations, 1))

\* The operation lists an LLM response may parse to; the empty list stands
\* for a response without parsable operations.
OperationPlans ==
    { <<>>,
      << CreateText("title", 2, "top", 36, FALSE),
         PlayAnimation("Write", <<"title">>),
         Wait >>,
      << CreateText("title", 2, "top", 36, FALSE),
         PlayAnimation("FadeOut", <<"title">>),
         CreateText("result", 2, "bottom", 36, TRUE),
         AnimateProperty("result") >> }

\* self.arun either returns a response or raises.
ArunOutcomes ==
    {[kind |-> "ok", payload |-> p] : p \in OperationPlans}
        \cup {[kind |-> "raise", payload |-> <<>>]}

\* generate_visualization_code from the point where self.arun returns.
generate_visualization_code(b, request, out) ==
    IF out.kind = "raise" THEN intelligent_generate(request)
    ELSE IF out.payload = <<>> THEN intelligent_generate(request)
    ELSE execute_operations(b, request, out.payload)

Calls == 1..MaxCalls

NoCode == [operations |-> <<>>, report |-> {}]

AgentInit ==
    /\ agent = [builder |-> ManimCodeBuilder,
                calls |-> [c \in Calls |-> [pc |-> "idle", code |-> NoCode]]]
    /\ SceneInit
    /\ WorkflowIdle
    /\ RestIdle

\* A call starts: it rebinds self.builder and suspends in await self.arun.
StartCall ==
    \E c \in Calls :
        /\ agent.calls[c].pc = "idle"
        /\ agent' = [agent EXCEPT !.builder = ManimCodeBuilder,
                                  !.calls[c].pc = "awaiting"]
        /\ UNCHANGED sceneVars
        /\ UNCHANGED wfVars
        /\ UNCHANGED restVars

\* The LLM call of a suspended call ends; the rest of the call has no
\* suspension point and runs to its return.
ResumeCall ==
    \E c \in Calls : \E out \in ArunOutcomes :
        LET g == generate_visualization_code(agent.builder, c, out) IN
        /\ agent.calls[c].pc = "awaiting"
        /\ agent' = [agent EXCEPT !.builder = g.builder,
                                  !.calls[c] = [pc |-> "done", code |-> g.code]]
        /\ UNCHANGED sceneVars
        /\ UNCHANGED wfVars
        /\ UNCHANGED restVars

AgentNext ==
    \/ StartCall
    \/ ResumeCall

SpecAgent == AgentInit /\ [][AgentNext]_vars

----------------------------------------------------------------------------
(* ManimCodeBuilder sessions: the builder and its state manager            *)

\* The variables elements, current_step, history and ret are the builder's
\* self.state_manager; self_operations is self.operations.

MaxBuilderCalls == 3

BuilderNames == {1, 2}

\* One line of a code fragment: the statement, the variables it names and,
\* for a positioning statement, the centre it moves to.
Line(stmt, names, at) == [stmt |-> stmt, names |-> names, at |-> at]

\* A ManimOperation with its code, a sequence of lines ending in "\n" each.
LoggedOperation(operation_type, code, affects_elements) ==
    [operation_type |-> operation_type, code |-> code,
     affects_elements |-> affects_elements]

\* What a builder method hands back: code, an error string or an exception.
\* success is the flag of the (success, code) pairs and TRUE for the methods
\* that return a string only.
Returned(op, success, kind, code) ==
    [op |-> op, success |-> success, kind |-> kind, code |-> code]

\* The tail shared by create_text, create_math and create_shape_group, after
\* the add_element call: the failure is passed on, a success is logged with
\* the positioning code name.move_to(centre) as the last line.
created(op, operation_type, name, lines) ==
    IF ~ ret'.success
    THEN /\ returned' = Returned(op, FALSE, "error", <<>>)
         /\ UNCHANGED self_operations
    ELSE LET bb == CHOOSE b \in ret'.bbox : TRUE
             code == Append(lines, Line("move_to", <<name>>, {center(bb)}))
         IN /\ self_operations' =
                   Append(self_operations,
                          LoggedOperation(operation_type, code, <<name>>))
            /\ returned' = Returned(op, TRUE, "code", code)

\* Variant: the creation fragment is logged even when placement failed.
builder_create_text_logs_failure(name, char_count, zone, font_size, persistent) ==
    LET estimated_width == min((char_count * font_size * 5) \div 2, 1800)
        estimated_height == font_size * 5
        code == <<Line("Text", <<name>>, {})>>
    IN /\ add_element(name, "text", zone, estimated_width, estimated_height,
                      persistent)
       /\ self_operations' =
              Append(self_operations,
                     LoggedOperation("create_text", code, <<name>>))
       /\ returned' = Returned("create_text", ret'.success,
                               IF ret'.success THEN "code" ELSE "error", code)

\* create_text: estimated_width = min(char_count * font_size / 72, 10) and
\* estimated_height = font_size / 36, in units of 1/180.
builder_create_text(name, char_count, zone, font_size, persistent) ==
    LET estimated_width == min((char_count * font_size * 5) \div 2, 1800)
        estimated_height == font_size * 5
    IN /\ add_element(name, "text", zone, estimated_width, estimated_height,
                      persistent)
       /\ created("create_text", "create_text", name,
                  <<Line("Text", <<name>>, {})>>)

\* create_math: estimated_width = min(len(latex) * font_size / 80, 8) and
\* estimated_height = font_size / 36.
builder_create_math(name, latex_len, zone, font_size, persistent) ==
    LET estimated_width == min((latex_len * font_size * 9) \div 4, 1440)
        estimated_height == font_size * 5
    IN /\ add_element(name, "math", zone, estimated_width, estimated_height,
                      persistent)
       /\ created("create_math", "create_math", name,
                  <<Line("MathTex", <<name>>, {})>>)

\* create_shape_group.  A grid of no shapes divides by zero (cols is 0)
\* before the state manager is called.
builder_create_shape_group(name, count, zone, arrangement, persistent) ==
    IF arrangement = "grid" /\ count = 0
    THEN /\ returned' = Returned("create_shape_group", FALSE, "raise", <<>>)
         /\ UNCHANGED <<elements, current_step, history, ret, self_operations>>
    ELSE
      LET cols == min(count, 5)
          rows == (count + cols - 1) \div cols
          estimated_width == IF arrangement = "grid" THEN cols * 90
                             ELSE IF arrangement = "row" THEN count * 72
                             ELSE 72
          estimated_height == IF arrangement = "grid" THEN rows * 90
                              ELSE IF arrangement = "row" THEN 72
                              ELSE count * 72
      IN /\ add_element(name, "group", zone, estimated_width,
                        estimated_height, persistent)
         /\ created("create_shape_group", "create_group", name,
                    << Line("VGroup", <<name>>, {}),
                       Line(arrangement, <<name>>, {}),
                       Line("scale", <<name>>, {}) >>)

\* The remove_element calls of FADE_OUT, one per target and in order: what
\* the last of them returns.
RECURSIVE last_removal(_, _, _)
last_removal(live, targets, i) ==
    IF i = Len(targets)
    THEN IF targets[i] \in live
         THEN Ret("remove_element", targets[i], "none", TRUE, {}, {})
         ELSE Ret("remove_element", 0, "none", FALSE, {}, {})
    ELSE last_removal(live \ {targets[i]}, targets, i + 1)

\* The log entry and the return value of play_animation.
played(animation_type, targets) ==
    LET code == <<Line(animation_type, targets, {})>> IN
    /\ self_operations' =
           Append(self_operations, LoggedOperation("animation", code, targets))
    /\ returned' = Returned("play_animation", TRUE, "code", code)

\* Variant: FADE_OUT removes its first target only.
builder_play_animation_removes_first(animation_type, targets) ==
    IF animation_type = "FadeOut" /\ targets # <<>>
    THEN /\ elements' = [n \in Live \ {targets[1]} |-> elements[n]]
         /\ history' = Unshare(history, {targets[1]})
         /\ ret' = last_removal(Live, targets, 1)
         /\ UNCHANGED current_step
         /\ played(animation_type, targets)
    ELSE /\ UNCHANGED <<elements, current_step, history, ret>>
         /\ played(animation_type, targets)

\* Variant: a TRANSFORM that is judged unsafe is not logged.
builder_play_animation_drops_unsafe(animation_type, targets) ==
    IF animation_type = "Transform" /\ Len(targets) = 2
    THEN LET target == targets[2]
             w == IF target \in Live THEN width(get_element(target).bbox)
                  ELSE 180
             h == IF target \in Live THEN height(get_element(target).bbox)
                  ELSE 180
         IN /\ suggest_transform_target(targets[1], w, h)
            /\ IF ret'.success THEN played(animation_type, targets)
               ELSE /\ returned' = Returned("play_animation", FALSE, "error",
                                            <<>>)
                    /\ UNCHANGED self_operations
    ELSE /\ UNCHANGED <<elements, current_step, history, ret>>
         /\ played(animation_type, targets)

\* play_animation.  A target that is not live is only warned about.  The
\* size asked for the source of a TRANSFORM is the target's, or 1.0 by 1.0
\* when the target is not live.
builder_play_animation(animation_type, targets) ==
    IF animation_type = "FadeOut"
    THEN /\ elements' = [n \in Live \ Range(targets) |-> elements[n]]
         /\ history' = Unshare(history, Range(targets))
         /\ ret' = IF targets = <<>> THEN ret
                   ELSE last_removal(Live, targets, 1)
         /\ UNCHANGED current_step
         /\ played(animation_type, targets)
    ELSE IF animation_type = "Transform"
    THEN IF Len(targets) # 2
         THEN /\ returned' = Returned("play_animation", FALSE, "error", <<>>)
              /\ UNCHANGED <<elements, current_step, history, ret,
                             self_operations>>
         ELSE LET target == targets[2]
                  w == IF target \in Live
                       THEN width(get_element(target).bbox) ELSE 180
                  h == IF target \in Live
                       THEN height(get_element(target).bbox) ELSE 180
              IN /\ suggest_transform_target(targets[1], w, h)
                 /\ played(animation_type, targets)
    ELSE /\ UNCHANGED <<elements, current_step, history, ret>>
         /\ played(animation_type, targets)

\* Variant: animating scale resizes the target's bbox in the registry.
builder_animate_property_resizes(target, property_name) ==
    IF target \notin Live
    THEN /\ returned' = Returned("animate_property", FALSE, "error", <<>>)
         /\ UNCHANGED <<self_operations, elements, current_step, history, ret>>
    ELSE LET code == <<Line("animate." \o property_name, <<target>>, {})>>
             b == get_element(target).bbox
             c == center(b)
         IN /\ self_operations' =
                   Append(self_operations,
                          LoggedOperation("animate_property", code, <<target>>))
            /\ returned' = Returned("animate_property", TRUE, "code", code)
            /\ elements' =
                   IF property_name = "scale"
                   THEN [elements EXCEPT ![target].bbox =
                            BoxAt(c[1], c[2], 2 * width(b), 2 * height(b))]
                   ELSE elements
            /\ UNCHANGED <<current_step, history, ret>>

\* property_name is only interpolated into the generated line.
builder_animate_property(target, property_name) ==
    /\ IF target \notin Live
       THEN /\ returned' = Returned("animate_property", FALSE, "error", <<>>)
            /\ UNCHANGED self_operations
       ELSE LET code == <<Line("animate." \o property_name, <<target>>, {})>> IN
            /\ self_operations' =
                   Append(self_operations,
                          LoggedOperation("animate_property", code, <<target>>))
            /\ returned' = Returned("animate_property", TRUE, "code", code)
    /\ UNCHANGED <<elements, current_step, history, ret>>

builder_wait ==
    LET code == <<Line("wait", <<>>, {})>> IN
    /\ self_operations' =
           Append(self_operations, LoggedOperation("wait", code, <<>>))
    /\ returned' = Returned("wait", TRUE, "code", code)
    /\ UNCHANGED <<elements, current_step, history, ret>>

builder_add_comment ==
    LET code == <<Line("comment", <<>>, {})>> IN
    /\ self_operations' =
           Append(self_operations, LoggedOperation("comment", code, <<>>))
    /\ returned' = Returned("add_comment", TRUE, "code", code)
    /\ UNCHANGED <<elements, current_step, history, ret>>

\* Variant: the step marker is logged without stepping the state manager.
builder_start_step_no_next_step ==
    LET code == <<Line("step_marker", <<>>, {})>> IN
    /\ current_step < MaxStep
    /\ self_operations' =
           Append(self_operations, LoggedOperation("step_marker", code, <<>>))
    /\ returned' = Returned("start_step", TRUE, "code", code)
    /\ UNCHANGED <<elements, current_step, history, ret>>

builder_start_step ==
    LET code == <<Line("step_marker", <<>>, {})>> IN
    /\ next_step
    /\ self_operations' =
           Append(self_operations, LoggedOperation("step_marker", code, <<>>))
    /\ returned' = Returned("start_step", TRUE, "code", code)

\* generate_layout_report: the step and, for each zone of ZONE_BOUNDS, the
\* live elements with their type, centre and size.
generate_layout_report ==
    [step |-> current_step,
     elements |-> {[name |-> n, element_type |-> elements[n].element_type,
                    zone |-> elements[n].zone, bbox |-> elements[n].bbox] :
                       n \in {x \in Live : elements[x].zone \in KnownZones}}]

\* build returns the program text: body holds its physical lines after the
\* header, in order.  The lines of a fragment are indented and then joined
\* with "" (the "\n" they were split at is not put back), so each operation
\* yields one physical line that holds all the lines of its fragment.
builder_build ==
    /\ returned' = Returned("build", TRUE, "code",
                            [body |-> [i \in 1..Len(self_operations) |->
                                          self_operations[i].code],
                             report |-> generate_layout_report])
    /\ UNCHANGED <<elements, current_step, history, ret, self_operations>>

\* Sessions of at most MaxBuilderCalls builder calls.
CountBuilderCall ==
    /\ session_calls < MaxBuilderCalls
    /\ session_calls' = session_calls + 1
    /\ UNCHANGED <<wfVars, agent, twin, float_boxes, engine>>

TargetLists ==
    {<<n>> : n \in BuilderNames}
        \cup {t \in {<<n1, n2>> : n1 \in BuilderNames, n2 \in BuilderNames} :
                  t[1] # t[2]}

\* One builder call.  2 characters at font size 36 are 1.0 wide, 20
\* characters 10.0 wide; a formula of 8 characters at font size 40 is 4.0
\* wide.
BuilderNext ==
    \/ /\ CountBuilderCall
       /\ \E name \in BuilderNames :
              \/ builder_create_text(name, 2, "center", 36, FALSE)
              \/ builder_create_text(name, 20, "top", 36, FALSE)
    \/ /\ CountBuilderCall
       /\ \E name \in BuilderNames, zone \in {"top", "center"} :
              builder_create_math(name, 8, zone, 40, FALSE)
    \/ /\ CountBuilderCall
       /\ \E name \in BuilderNames, count \in {0, 3} :
              builder_create_shape_group(name, count, "top", "grid", FALSE)
    \/ /\ CountBuilderCall
       /\ \E animation_type \in {"Write", "FadeOut", "Transform"},
              targets \in TargetLists :
              builder_play_animation(animation_type, targets)
    \/ /\ CountBuilderCall
       /\ \E target \in BuilderNames, property_name \in {"scale", "set_color"} :
              builder_animate_property(target, property_name)
    \/ /\ CountBuilderCall
       /\ builder_wait
    \/ /\ CountBuilderCall
       /\ builder_add_comment
    \/ /\ CountBuilderCall
       /\ builder_start_step
    \/ /\ CountBuilderCall
       /\ builder_build

\* A fresh builder: a fresh state manager and an empty log.
BuilderInit ==
    /\ SceneInit
    /\ WorkflowIdle
    /\ AgentIdle
    /\ twin = <<>>
    /\ float_boxes = <<>>
    /\ self_operations = <<>>
    /\ returned = Returned("init", TRUE, "code", <<>>)
    /\ engine = <<>>

SpecBuilder == BuilderInit /\ [][BuilderNext]_vars

----------------------------------------------------------------------------
(* CodeQualityAnalyzer and AgentCoordinator.should_skip_review             *)

MaxTransforms == 5
MaxFadeOuts == 6

\* QualityMetrics.quality_score, in points.  estimated_overlap_risk is kept
\* in tenths, so risk * 20 is two points per tenth.
quality_score(metrics) ==
    LET faults == (IF ~ metrics.has_chinese_font THEN 20 ELSE 0)
                      + (IF metrics.has_layout_issues THEN 15 ELSE 0)
                      + (IF ~ metrics.syntax_valid THEN 30 ELSE 0)
                      + (IF ~ metrics.has_scene_class THEN 30 ELSE 0)
        transitions == IF metrics.scene_transition_count > 5
                       THEN (metrics.scene_transition_count - 5) * 5 ELSE 0
        reuse == IF metrics.transform_count > 0
                 THEN min(metrics.transform_count * 3, 15) ELSE 0
        score == 100 - faults - transitions + reuse
                     - metrics.estimated_overlap_risk * 2
    IN IF score > 100 THEN 100 ELSE IF score < 0 THEN 0 ELSE score

\* CodeQualityAnalyzer.analyze.  A code text is given by what the analyzer
\* reads off it: whether it holds the font argument, whether compile()
\* accepts it, whether it holds "class" and "Scene", and how often it holds
\* "FadeOut", "Transform", ".to_edge(", ".move_to(", ".next_to(", ".scale(",
\* "Text(" and "VGroup".
analyze(code) ==
    LET has_to_edge == code.to_edge > 0
        has_move_to == code.move_to > 0
        has_scale == code.scale > 0
        position_statements == code.to_edge + code.move_to + code.next_to
        risk == (IF code.Text > 5 /\ ~ has_to_edge THEN 3 ELSE 0)
                    + (IF code.VGroup > 3 /\ ~ has_scale THEN 2 ELSE 0)
                    + (IF code.Text + code.VGroup > position_statements
                       THEN 3 ELSE 0)
    IN [has_chinese_font |-> code.font,
        has_layout_issues |-> \/ ~ (has_to_edge \/ has_move_to)
                              \/ (code.VGroup > 0 /\ ~ has_scale),
        scene_transition_count |-> code.FadeOut,
        transform_count |-> code.Transform,
        syntax_valid |-> code.compiles,
        has_scene_class |-> code.class_Scene,
        estimated_overlap_risk |-> min(10, risk)]

\* The returned reason is kept as the branch that produced it.
should_skip_review(code, force_review, quality_threshold) ==
    IF force_review THEN [skip |-> FALSE, reason |-> "forced"]
    ELSE LET metrics == analyze(code) IN
         IF quality_score(metrics) >= quality_threshold
         THEN [skip |-> TRUE, reason |-> "excellent"]
         ELSE IF ~ metrics.syntax_valid \/ ~ metrics.has_scene_class
         THEN [skip |-> FALSE, reason |-> "severe"]
         ELSE [skip |-> FALSE, reason |-> "average"]

\* One should_skip_review call still to be made: any code text, forced or
\* not, with the threshold of the first review (the default, 80) or of the
\* review after a debug round (70).
ReviewInit ==
    /\ SceneInit
    /\ WorkflowIdle
    /\ AgentIdle
    /\ twin = <<>>
    /\ float_boxes = <<>>
    /\ self_operations = <<>>
    /\ returned = <<>>
    /\ engine \in
           [code : [font : BOOLEAN, compiles : BOOLEAN, class_Scene : BOOLEAN,
                    FadeOut : {0, MaxFadeOuts}, Transform : 0..MaxTransforms,
                    to_edge : {0, 1}, move_to : {0, 1}, next_to : {0},
                    scale : {0, 1}, Text : {0, 1, 6}, VGroup : {0, 4}],
            force_review : BOOLEAN,
            quality_threshold : {80, 70},
            verdict : {[skip |-> FALSE, reason |-> "pending"]}]

ShouldSkipReview ==
    /\ engine.verdict.reason = "pending"
    /\ engine' = [engine EXCEPT
                     !.verdict = should_skip_review(engine.code,
                                                    engine.force_review,
                                                    engine.quality_threshold)]
    /\ UNCHANGED <<sceneVars, wfVars, agent, twin, float_boxes,
                   self_operations, returned>>

ReviewNext == ShouldSkipReview

SpecReview == ReviewInit /\ [][ReviewNext]_vars

----------------------------------------------------------------------------
(* MathTutorEngineV2: process_problem calls sharing one engine instance    *)

MaxEngineCalls == 2
DEFAULT_MAX_DEBUG_ATTEMPTS == 2

EngineCalls == 1..MaxEngineCalls

\* A code text is <<the call it was written for, its revision>>.
NoCodeYet == <<0, 0>>

\* process_problem from the return of _execute_with_debugging on: no await
\* is left, and the result dict reads self.debug_attempts and
\* self.final_code (both attributes exist by then).
v2_result(e, c, success) ==
    [e EXCEPT !.calls[c].pc = "done",
              !.calls[c].result =
                  [status |-> IF success THEN "success" ELSE "error",
                   debug_attempts |-> e.debug_attempts,
                   final_code |-> e.final_code]]

\* execute_code has returned to call c: the call returns, or passes the loop
\* test, counts the attempt and is suspended in debug_code.
v2_after_execute(e, c, success) ==
    IF success THEN v2_result(e, c, TRUE)
    ELSE IF e.debug_attempts < e.max_debug_attempts
    THEN [e EXCEPT !.debug_attempts = @ + 1,
                   !.calls[c].pc = "debug_code",
                   !.calls[c].debug_calls = @ + 1]
    ELSE v2_result(e, c, FALSE)

\* current_code = fixed_code; self.final_code = fixed_code; execute_code.
v2_execute_fixed(e, c, fixed_code, success) ==
    v2_after_execute([e EXCEPT !.final_code = fixed_code,
                               !.calls[c].current_code = fixed_code],
                     c, success)

\* After debug_code and its review: unfixed code on the last attempt is
\* regenerated, anything else is executed.
v2_after_fix(e, c, fixed_code, success) ==
    IF /\ fixed_code = e.calls[c].current_code
       /\ e.debug_attempts = e.max_debug_attempts
    THEN [e EXCEPT !.calls[c].pc = "regenerate"]
    ELSE v2_execute_fixed(e, c, fixed_code, success)

EngineV2Init ==
    /\ SceneInit
    /\ WorkflowIdle
    /\ AgentIdle
    /\ twin = <<>>
    /\ float_boxes = <<>>
    /\ self_operations = <<>>
    /\ returned = <<>>
    /\ engine \in
           [max_debug_attempts : {DEFAULT_MAX_DEBUG_ATTEMPTS},
            enable_review_agent : BOOLEAN,
            auto_skip_optimization : BOOLEAN,
            debug_attempts : {0},
            final_code : {NoCodeYet},
            calls : {[c \in EngineCalls |->
                         [pc |-> "idle", current_code |-> NoCodeYet,
                          fixed_code |-> NoCodeYet, debug_calls |-> 0,
                          result |-> [status |-> "none", debug_attempts |-> 0,
                                      final_code |-> NoCodeYet]]]}]

EngineIdleRest ==
    UNCHANGED <<sceneVars, wfVars, agent, twin, float_boxes, self_operations,
                returned>>

\* A call starts and is suspended in the agents that analyse, solve,
\* visualize and review.
V2ProcessProblem ==
    \E c \in EngineCalls :
        /\ engine.calls[c].pc = "idle"
        /\ engine' = [engine EXCEPT !.calls[c].pc = "prepare"]
        /\ EngineIdleRest

\* The call enters _execute_with_debugging and runs the first execute_code.
V2ExecuteWithDebugging ==
    \E c \in EngineCalls, success \in BOOLEAN :
        /\ engine.calls[c].pc = "prepare"
        /\ engine' =
               v2_after_execute(
                   [engine EXCEPT !.debug_attempts = 0,
                                  !.final_code = <<c, 0>>,
                                  !.calls[c].current_code = <<c, 0>>],
                   c, success)
        /\ EngineIdleRest

\* debug_code returns the code it was given or a new revision; a new
\* revision is reviewed when both switches are on and should_skip_review
\* does not skip it.
V2DebugCode ==
    \E c \in EngineCalls, changed \in BOOLEAN, should_skip \in BOOLEAN,
       success \in BOOLEAN :
        LET current_code == engine.calls[c].current_code
            fixed_code == IF changed THEN <<c, current_code[2] + 1>>
                          ELSE current_code
        IN /\ engine.calls[c].pc = "debug_code"
           /\ engine' =
                  IF /\ changed
                     /\ engine.auto_skip_optimization
                     /\ engine.enable_review_agent
                     /\ ~ should_skip
                  THEN [engine EXCEPT !.calls[c].pc = "review_after_debug",
                                      !.calls[c].fixed_code = fixed_code]
                  ELSE v2_after_fix(engine, c, fixed_code, success)
           /\ EngineIdleRest

\* review_code returns the code it was given or a new revision.
V2ReviewAfterDebug ==
    \E c \in EngineCalls, rewritten \in BOOLEAN, success \in BOOLEAN :
        LET given == engine.calls[c].fixed_code
            fixed_code == IF rewritten THEN <<c, given[2] + 1>> ELSE given
        IN /\ engine.calls[c].pc = "review_after_debug"
           /\ engine' = v2_after_fix(engine, c, fixed_code, success)
           /\ EngineIdleRest

\* generate_visualization_code returns fresh code, which is reviewed when
\* the review agent is enabled.
V2Regenerate ==
    \E c \in EngineCalls, success \in BOOLEAN :
        LET fixed_code == <<c, engine.calls[c].current_code[2] + 1>>
        IN /\ engine.calls[c].pc = "regenerate"
           /\ engine' =
                  IF engine.enable_review_agent
                  THEN [engine EXCEPT !.calls[c].pc = "review_after_retry",
                                      !.calls[c].fixed_code = fixed_code]
                  ELSE v2_execute_fixed(engine, c, fixed_code, success)
           /\ EngineIdleRest

V2ReviewAfterRetry ==
    \E c \in EngineCalls, rewritten \in BOOLEAN, success \in BOOLEAN :
        LET given == engine.calls[c].fixed_code
            fixed_code == IF rewritten THEN <<c, given[2] + 1>> ELSE given
        IN /\ engine.calls[c].pc = "review_after_retry"
           /\ engine' = v2_execute_fixed(engine, c, fixed_code, success)
           /\ EngineIdleRest

EngineV2Next ==
    \/ V2ProcessProblem
    \/ V2ExecuteWithDebugging
    \/ V2DebugCode
    \/ V2ReviewAfterDebug
    \/ V2Regenerate
    \/ V2ReviewAfterRetry

\* The event loop resumes any suspended call in any order.
SpecEngineV2 == EngineV2Init /\ [][EngineV2Next]_vars

----------------------------------------------------------------------------
(* ProcessProblemUseCase.execute                                           *)

MaxUseCaseAttempts == 3

\* ProcessProblemResult; video_path is Optional as a set.
ProcessProblemResult(success, video_path, error) ==
    [success |-> success, video_path |-> video_path, error |-> error]

\* What execute_code returns: result.success and result.error_message.
RenderResults ==
    {[success |-> TRUE, error_message |-> "None"],
     [success |-> FALSE, error_message |-> "SyntaxError"],
     [success |-> FALSE, error_message |-> "NameError"]}

\* _render_with_debugging from the return of execute_code in the round
\* `attempt` on, up to the next await or to the return of execute.
render_round(u, render) ==
    IF render.success
    THEN [u EXCEPT !.pc = "done", !.renders = @ + 1,
                   !.result = ProcessProblemResult(TRUE, {"video"}, "None")]
    ELSE IF u.attempt < u.max_debug_attempts
    THEN [u EXCEPT !.pc = "debug_code", !.renders = @ + 1,
                   !.debug_calls = @ + 1,
                   !.error_message = render.error_message]
    ELSE [u EXCEPT !.pc = "done", !.renders = @ + 1,
                   !.result = ProcessProblemResult(TRUE, {}, "None")]

\* The except clause of execute.
caught(u, awaited) ==
    [u EXCEPT !.pc = "done",
              !.result = ProcessProblemResult(FALSE, {}, awaited)]

UseCaseInit ==
    /\ SceneInit
    /\ WorkflowIdle
    /\ AgentIdle
    /\ twin = <<>>
    /\ float_boxes = <<>>
    /\ self_operations = <<>>
    /\ returned = <<>>
    /\ engine \in
           [max_debug_attempts : 0..MaxUseCaseAttempts,
            pc : {"analyze_problem"},
            attempt : {0},
            current_code : {0},
            error_message : {"None"},
            renders : {0},
            debug_calls : {0},
            result : {ProcessProblemResult(FALSE, {}, "pending")}]

\* analyze_problem or solve_problem returns or raises.
UseCaseAwait ==
    \E raises \in BOOLEAN :
        /\ engine.pc \in {"analyze_problem", "solve_problem"}
        /\ engine' =
               IF raises THEN caught(engine, engine.pc)
               ELSE [engine EXCEPT !.pc = IF @ = "analyze_problem"
                                          THEN "solve_problem"
                                          ELSE "generate_visualization_code"]
        /\ EngineIdleRest

\* generate_visualization_code returns or raises; the first round of
\* _render_with_debugging runs.
UseCaseRender ==
    \E raises \in BOOLEAN, render \in RenderResults :
        /\ engine.pc = "generate_visualization_code"
        /\ engine' = IF raises THEN caught(engine, engine.pc)
                     ELSE render_round(engine, render)
        /\ EngineIdleRest

\* debug_code returns the code it was given or a new revision, or raises;
\* the next round runs.
UseCaseDebugCode ==
    \E raises \in BOOLEAN, changed \in BOOLEAN, render \in RenderResults :
        /\ engine.pc = "debug_code"
        /\ engine' =
               IF raises THEN caught(engine, engine.pc)
               ELSE render_round(
                        [engine EXCEPT !.attempt = @ + 1,
                                       !.current_code =
                                           IF changed THEN @ + 1 ELSE @],
                        render)
        /\ EngineIdleRest

UseCaseNext ==
    \/ UseCaseAwait
    \/ UseCaseRender
    \/ UseCaseDebugCode

SpecUseCase == UseCaseInit /\ [][UseCaseNext]_vars

----------------------------------------------------------------------------
(* MathTutorEngine: one process_problem call                               *)

MaxEngineAttempts == 3

\* execute_code has returned: process_problem returns, or the loop test
\* passes, the attempt is counted and the call waits for debug_code.
engine_after_execute(e, success) ==
    IF success THEN [e EXCEPT !.pc = "done", !.status = "success"]
    ELSE IF e.debug_attempts < e.max_debug_attempts
    THEN [e EXCEPT !.debug_attempts = @ + 1, !.pc = "debug_code"]
    ELSE [e EXCEPT !.pc = "done", !.status = "error"]

\* _execute_with_debugging up to its first await or its return.
engine_execute_with_debugging(e, success) ==
    engine_after_execute([e EXCEPT !.debug_attempts = 0,
                                   !.final_code = e.current_code], success)

\* After debug_code and the review of changed code: unfixed code is
\* regenerated on the attempt before the last; then review_code is called,
\* whatever enable_review_agent says.
engine_after_fix(e, fixed_code) ==
    IF /\ fixed_code = e.current_code
       /\ e.debug_attempts = e.max_debug_attempts - 1
    THEN [e EXCEPT !.pc = "regenerate"]
    ELSE [e EXCEPT !.pc = "review_before_execute",
                   !.fixed_code = fixed_code,
                   !.review_calls = @ + 1]

EngineInit ==
    /\ SceneInit
    /\ WorkflowIdle
    /\ AgentIdle
    /\ twin = <<>>
    /\ float_boxes = <<>>
    /\ self_operations = <<>>
    /\ returned = <<>>
    /\ engine \in
           [enable_understanding_agent : BOOLEAN,
            enable_review_agent : BOOLEAN,
            max_debug_attempts : 0..MaxEngineAttempts,
            pc : {"idle"},
            status : {"none"},
            debug_attempts : {0},
            current_code : {0},
            fixed_code : {0},
            final_code : {0},
            review_calls : {0}]

\* process_problem up to its first await.
EngineProcessProblem ==
    /\ engine.pc = "idle"
    /\ engine' = [engine EXCEPT !.pc = IF engine.enable_understanding_agent
                                       THEN "analyze_problem"
                                       ELSE "solve_problem"]
    /\ EngineIdleRest

\* analyze_problem or solve_problem returns.
EngineAwait ==
    /\ engine.pc \in {"analyze_problem", "solve_problem"}
    /\ engine' = [engine EXCEPT !.pc = IF @ = "analyze_problem"
                                       THEN "solve_problem"
                                       ELSE "generate_visualization_code"]
    /\ EngineIdleRest

\* generate_visualization_code returns; step 4 reviews when enabled.
EngineGenerate ==
    \E success \in BOOLEAN :
        /\ engine.pc = "generate_visualization_code"
        /\ engine' =
               IF engine.enable_review_agent
               THEN [engine EXCEPT !.pc = "review_code",
                                   !.review_calls = @ + 1]
               ELSE engine_execute_with_debugging(engine, success)
        /\ EngineIdleRest

\* The review of step 4 returns the code it was given or a new revision.
EngineReview ==
    \E rewritten \in BOOLEAN, success \in BOOLEAN :
        /\ engine.pc = "review_code"
        /\ engine' =
               engine_execute_with_debugging(
                   [engine EXCEPT !.current_code =
                                      IF rewritten THEN @ + 1 ELSE @],
                   success)
        /\ EngineIdleRest

\* debug_code returns the code it was given or a new revision; changed
\* code is reviewed when the review agent is enabled.
EngineDebugCode ==
    \E changed \in BOOLEAN :
        LET fixed_code == IF changed THEN engine.current_code + 1
                          ELSE engine.current_code
        IN /\ engine.pc = "debug_code"
           /\ engine' =
                  IF changed /\ engine.enable_review_agent
                  THEN [engine EXCEPT !.pc = "review_after_debug",
                                      !.fixed_code = fixed_code,
                                      !.review_calls = @ + 1]
                  ELSE engine_after_fix(engine, fixed_code)
           /\ EngineIdleRest

EngineReviewAfterDebug ==
    \E rewritten \in BOOLEAN :
        /\ engine.pc = "review_after_debug"
        /\ engine' = engine_after_fix(engine,
                                      IF rewritten THEN engine.fixed_code + 1
                                      ELSE engine.fixed_code)
        /\ EngineIdleRest

\* generate_visualization_code(is_retry=True) returns fresh code.
EngineRegenerate ==
    /\ engine.pc = "regenerate"
    /\ engine' = [engine EXCEPT !.pc = "review_before_execute",
                                !.fixed_code = engine.current_code + 1,
                                !.review_calls = @ + 1]
    /\ EngineIdleRest

\* The review at the end of the round returns; the code is executed.
EngineReviewBeforeExecute ==
    \E rewritten \in BOOLEAN, success \in BOOLEAN :
        LET fixed_code == IF rewritten THEN engine.fixed_code + 1
                          ELSE engine.fixed_code
        IN /\ engine.pc = "review_before_execute"
           /\ engine' = engine_after_execute(
                            [engine EXCEPT !.current_code = fixed_code,
                                           !.final_code = fixed_code],
                            success)
           /\ EngineIdleRest

EngineNext ==
    \/ EngineProcessProblem
    \/ EngineAwait
    \/ EngineGenerate
    \/ EngineReview
    \/ EngineDebugCode
    \/ EngineReviewAfterDebug
    \/ EngineRegenerate
    \/ EngineReviewBeforeExecute

SpecEngine == EngineInit /\ [][EngineNext]_vars

----------------------------------------------------------------------------
(* Properties                                                              *)

Terminal == pc \in {"END", "returned"}

C2_ZoneContainment ==
    (ret.op = "add_element" /\ ret.success)
        => \A b \in ret.bbox : bbox_in_zone(b, ZONE_BOUNDS[ret.zone])

\* C3: no run invokes the execute step more than MAX_DEBUG_ATTEMPTS + 1 = 4
\* times, and a run whose execute steps all failed to produce a video has
\* reached fallback by the time it is terminal.
C3_ExecuteCeiling ==
    /\ trace.execute <= MAX_DEBUG_ATTEMPTS + 1
    /\ (Terminal /\ trace.exec_never_video) => st.status = "fallback"

\* A run used all four execute invocations, none produced a video, and ended.
C3_Witness ==
    /\ Terminal
    /\ trace.exec_never_video
    /\ trace.execute = MAX_DEBUG_ATTEMPTS + 1

\* C4: if every execute step returns normally with a failure classified
\* runtime, the run ends with status fallback, debug_attempts = 3 and exactly
\* three debug steps executed.
C4_RuntimeFailuresEndInFallback ==
    (Terminal /\ trace.exec_always_runtime)
        => /\ st.status = "fallback"
           /\ st.debug_attempts = 3
           /\ trace.debug = 3

\* A run ended after execute failed with a runtime error every time.
C4_Witness ==
    /\ pc = "returned"
    /\ trace.exec_always_runtime
    /\ trace.execute > 0
    /\ st.error_type = "runtime"

\* C5: if validate yields is_valid=False on every invocation, the run enters
\* visualize after exactly 2 solving invocations (solve and solve_simple
\* together), with solve_attempts = 2.
C5_TwoSolvingInvocations ==
    (pc = "visualize" /\ trace.always_invalid)
        => /\ trace.solve + trace.solve_simple = 2
           /\ st.solve_attempts = 2

\* C6: the result process_problem returns has status success, fallback or
\* failed; success comes with a video_path, fallback with a fallback_content,
\* failed with an error.
C6_ResultStatus ==
    pc = "returned"
        => /\ result.status \in {"success", "fallback", "failed"}
           /\ result.status = "success" => result.video_path # "None"
           /\ result.status = "fallback" => result.fallback_content # "None"
           /\ result.status = "failed" => result.error # "None"

\* process_problem returned a success result.
C6_Witness ==
    /\ pc = "returned"
    /\ result.status = "success"
    /\ trace.debug > 0

\* C7: whatever the outcome of each step, every run eventually reaches END.
C7_ReachesEnd == <>Terminal

\* A run reached END after using up both the solve-validate cycle and the
\* debug-execute cycle.
C7_Witness ==
    /\ pc = "END"
    /\ trace.solve = MAX_SOLVE_ATTEMPTS
    /\ trace.debug = MAX_DEBUG_ATTEMPTS

\* C8: in every reachable workflow state debug_attempts <= 3 and
\* solve_attempts <= 2.
C8_AttemptCeilings ==
    /\ st.debug_attempts <= MAX_DEBUG_ATTEMPTS
    /\ st.solve_attempts <= MAX_SOLVE_ATTEMPTS

\* C9: when the collaborator call of a step raises or times out, no exception
\* leaves the graph run and the run continues with routing; after a failed
\* classifier call the state holds problem_type complex and problem_difficulty
\* medium and the next node is understand.
C9_CatchAndDefault ==
    /\ last.kind \in Failures
           => /\ pc \in NodeNames \cup {"END", "returned"}
              /\ result.status # "failed"
    /\ (last.node = "classify" /\ last.kind \in Failures)
           => /\ st.problem_type = "complex"
              /\ st.problem_difficulty = "medium"
              /\ pc = "understand"

\* The classifier's LLM call timed out and the run went on to understand.
C9_Witness ==
    /\ last.node = "classify"
    /\ last.kind = "timeout"
    /\ pc = "understand"

\* C10: once the fallback step has run, status is fallback, fallback_content
\* is not null and the run is at END, also when formatting raised.
C10_FallbackSucceeds ==
    last.node = "fallback"
        => /\ st.status = "fallback"
           /\ st.fallback_content # "None"
           /\ Terminal

\* The fallback step ran on steps it could not format and on a missing
\* solution.
C10_Witness ==
    /\ last.node = "fallback"
    /\ last.kind = "raise"
    /\ st.fallback_content = "default"

\* C11: right after execute the run is at END exactly when a video_path was
\* produced, otherwise at fallback exactly when debug_attempts >= 3, otherwise
\* at debug, whatever error_type the failed execute reported.
C11_RouteAfterExecute ==
    (last.node = "execute" /\ pc # "returned")
        => /\ (pc = "END") <=> (st.video_path # "None")
           /\ (pc = "fallback") <=>
                  (st.video_path = "None" /\ st.debug_attempts >= 3)
           /\ (pc = "debug") <=>
                  (st.video_path = "None" /\ st.debug_attempts < 3)

\* A failed execute classified structure was followed by debug.
C11_Witness ==
    /\ last.node = "execute"
    /\ last.kind = "ok"
    /\ st.error_type = "structure"
    /\ pc = "debug"

\* C12: right after classify the run is at solve_simple exactly when
\* problem_type is simple or problem_difficulty is easy, and at understand
\* otherwise; a run that executed solve_simple never executes understand.
C12_RouteAfterClassify ==
    /\ last.node = "classify"
           => pc = IF st.problem_type = "simple" \/ st.problem_difficulty = "easy"
                   THEN "solve_simple"
                   ELSE "understand"
    /\ trace.solve_simple > 0 => trace.understand = 0

\* A run classified complex but easy took the solve_simple route and ended,
\* after validation sent it through solve as well.
C12_Witness ==
    /\ pc = "returned"
    /\ st.problem_type = "complex"
    /\ st.problem_difficulty = "easy"
    /\ trace.solve_simple > 0
    /\ trace.solve > 0

\* C13: an execute step that times out leaves video_path None and error_type
\* runtime, does not change debug_attempts, and is followed by debug whenever
\* debug_attempts < 3.
C13_TimeoutLikeRuntimeFailure ==
    [][(pc = "execute" /\ last'.node = "execute" /\ last'.kind = "timeout")
          => /\ st'.video_path = "None"
             /\ st'.error_type = "runtime"
             /\ st'.debug_attempts = st.debug_attempts
             /\ st'.debug_attempts < 3 => pc' = "debug"]_vars

\* C14: when the renderer subprocess never returns, the execute step still
\* ends and the run reaches a terminal status (success, fallback or failed).
C14_HangStillReachesTerminalStatus ==
    (pc = "hung")
        ~> (pc = "returned" /\ result.status \in {"success", "fallback", "failed"})

\* C15: the program a generate_visualization_code call returns contains only
\* operations and elements of that call's own request, also when another call
\* on the same agent ran while it was suspended in its LLM call.
C15_PerCallIsolation ==
    \A c \in Calls :
        agent.calls[c].pc = "done"
            => /\ \A i \in DOMAIN agent.calls[c].code.operations :
                      agent.calls[c].code.operations[i].request = c
               /\ \A e \in agent.calls[c].code.report : e.request = c

\* C16: a suggest_transform_target call that returns can_transform=False
\* leaves the live elements and their bboxes, current_step and the history
\* unchanged.
C16_FailedTransformChangesNothing ==
    [][(ret'.op = "suggest_transform_target" /\ ~ ret'.success)
          => UNCHANGED <<elements, current_step, history>>]_vars

\* After a step, a transform was refused with two elements live: its source
\* was live and the resized box would have overlapped the other element.
C16_Witness ==
    /\ ret.op = "suggest_transform_target"
    /\ ~ ret.success
    /\ Cardinality(Live) = MaxNames
    /\ history # <<>>

\* C17: an add_element call with a name that is already live is rejected
\* (success=False) and the element of that name keeps its zone, bbox and
\* persistent flag.
C17_DuplicateNameRejected ==
    [][(ret'.op = "add_element" /\ ret'.name \in Live)
          => /\ ~ ret'.success
             /\ elements'[ret'.name] = elements[ret'.name]]_vars

\* C18: an add_element call that finds no candidate position returns
\* success=False and no bbox, registers nothing, and leaves every element that
\* was live before the call live with its bbox.
C18_FailedAddChangesNothing ==
    [][(ret'.op = "add_element" /\ ~ ret'.success)
          => /\ ret'.bbox = {}
             /\ elements' = elements]_vars

\* The top zone is full: a call for it was refused while elements are live
\* in it.
C18_Witness ==
    /\ ret.op = "add_element"
    /\ ~ ret.success
    /\ ret.zone = "top"
    /\ list_elements("top") # {}

\* The box the claim of C19 describes for a zone with bounds: the box at the
\* zone centre when the zone has no live element, otherwise the box at the
\* first of the five centres (zone centre, left, right, top, bottom) that
\* lies in the zone and overlaps no live element of the zone, if any.
C19_Described(zone, w, h) ==
    LET zb == ZONE_BOUNDS[zone]
        cx == (zb.x_min + zb.x_max) \div 2
        cy == (zb.y_min + zb.y_max) \div 2
        boxes == << BoxAt(cx, cy, w, h),
                    BoxAt(zb.x_min + w \div 2 + 90, cy, w, h),
                    BoxAt(zb.x_max - w \div 2 - 90, cy, w, h),
                    BoxAt(cx, zb.y_max - h \div 2 - 54, w, h),
                    BoxAt(cx, zb.y_min + h \div 2 + 54, w, h) >>
        qualifying ==
            {i \in 1..5 :
                /\ bbox_in_zone(boxes[i], zb)
                /\ \A n \in Live :
                       elements[n].zone = zone
                           => ~ overlaps(boxes[i], elements[n].bbox, MARGIN)}
    IN IF \A n \in Live : elements[n].zone # zone THEN {boxes[1]}
       ELSE IF qualifying = {} THEN {}
       ELSE {boxes[CHOOSE i \in qualifying : \A j \in qualifying : i <= j]}

\* C19: an add_element call places the box at the zone centre when no live
\* element is in the zone, otherwise at the first qualifying candidate centre,
\* and fails only when the zone has live elements and none of the five
\* centres qualifies.
C19_PlacementRule ==
    [][ret'.op = "add_element"
          => IF ret'.success
             THEN LET bb == CHOOSE b \in ret'.bbox : TRUE IN
                  ret'.bbox = C19_Described(ret'.zone, width(bb), height(bb))
             ELSE /\ ret'.zone \in KnownZones
                  /\ list_elements(ret'.zone) # {}
                  /\ \E size \in Sizes :
                         C19_Described(ret'.zone, size[1], size[2]) = {}]_vars

\* C20: remove_element for a name that is not live returns False and leaves
\* the live elements, current_step and the history unchanged; the second of
\* two consecutive remove_element calls for one name does not return True
\* when the first did.
C20_RemoveAbsentName ==
    [][/\ \A name \in Names :
              (name \notin Live /\ remove_element(name)) => ~ ret'.success
       /\ (ret'.op = "remove_element" /\ ~ ret'.success)
              => UNCHANGED <<elements, current_step, history>>
       /\ (ret.op = "remove_element" /\ ret.success /\ remove_element(ret.name))
              => ~ ret'.success]_vars

\* After a step, a removal was refused while other elements were live.
C20_Witness ==
    /\ ret.op = "remove_element"
    /\ ~ ret.success
    /\ Live # {}
    /\ history # <<>>

\* C21: after clear_non_persistent the live elements are exactly the elements
\* that were live and persistent before the call, each one unchanged (zone
\* and bbox included), so no non-persistent element remains.
C21_ClearKeepsPersistent ==
    [][ret'.op = "clear_non_persistent"
          => /\ DOMAIN elements' = {n \in Live : elements[n].persistent}
             /\ \A n \in DOMAIN elements' :
                    /\ elements'[n] = elements[n]
                    /\ elements'[n].persistent]_vars

\* A clear has run and left a persistent element in place.
C21_Witness ==
    /\ ret.op = "clear_non_persistent"
    /\ \E n \in Live : elements[n].persistent

\* C22: clear_non_persistent returns the number of elements it removed.
C22_ClearReturnsCount ==
    [][ret'.op = "clear_non_persistent"
          => ret'.count =
                 {Cardinality(Live) - Cardinality(DOMAIN elements')}]_vars

C24_OverlapsCommutes ==
    float_boxes # <<>> => float_boxes.forward = float_boxes.backward

\* The log grew by exactly one operation, of the given type.
AppendedOne(operation_type) ==
    /\ Len(self_operations') = Len(self_operations) + 1
    /\ SubSeq(self_operations', 1, Len(self_operations)) = self_operations
    /\ self_operations'[Len(self_operations')].operation_type = operation_type

\* C25: when create_text, create_math or create_shape_group cannot be placed
\* it returns (False, error string), appends no operation and leaves the
\* registry unchanged; when it succeeds it appends exactly one operation and
\* the named element is live.
C25_CreationOutcome ==
    [][(returned'.op \in {"create_text", "create_math", "create_shape_group"}
            /\ returned'.kind # "raise")
          => IF ret'.success
             THEN /\ returned'.success
                  /\ returned'.kind = "code"
                  /\ AppendedOne(IF returned'.op = "create_shape_group"
                                 THEN "create_group" ELSE returned'.op)
                  /\ ret'.name \in DOMAIN elements'
             ELSE /\ ~ returned'.success
                  /\ returned'.kind = "error"
                  /\ UNCHANGED <<self_operations, elements>>]_vars

\* A formula was refused in the top zone, which a logged text fills.
C25_Witness ==
    /\ returned.op = "create_math"
    /\ ~ returned.success
    /\ ret.op = "add_element"
    /\ ret.zone = "top"
    /\ list_elements("top") # {}
    /\ self_operations # <<>>

\* C26: after play_animation(FADE_OUT, targets) no target is live, every
\* element outside targets is unchanged, and exactly one animation operation
\* has been appended.
C26_FadeOutRemovesTargets ==
    [][\A targets \in TargetLists :
           builder_play_animation("FadeOut", targets)
               => /\ DOMAIN elements' = Live \ Range(targets)
                  /\ \A n \in DOMAIN elements' : elements'[n] = elements[n]
                  /\ AppendedOne("animation")
                  /\ self_operations'[Len(self_operations')].affects_elements
                         = targets]_vars

\* A fade-out removed a live target and left another element in place.
C26_Witness ==
    /\ returned.op = "play_animation"
    /\ returned.kind = "code"
    /\ returned.code[1].stmt = "FadeOut"
    /\ ret.op = "remove_element"
    /\ ret.success
    /\ Live # {}

\* C27: play_animation(TRANSFORM, [source, target]) appends exactly one
\* Transform operation whether or not suggest_transform_target judges it
\* safe, and leaves the registry unchanged when it is judged unsafe; with a
\* number of targets other than 2 it returns an error string and appends no
\* operation.
C27_TransformAlwaysLogged ==
    [][\A targets \in TargetLists :
           builder_play_animation("Transform", targets)
               => IF Len(targets) = 2
                  THEN /\ AppendedOne("animation")
                       /\ returned'.kind = "code"
                       /\ returned'.code[1].stmt = "Transform"
                       /\ ret'.op = "suggest_transform_target"
                       /\ ~ ret'.success => UNCHANGED elements
                  ELSE /\ returned'.kind = "error"
                       /\ UNCHANGED <<self_operations, elements>>]_vars

\* A transform between two live elements was judged unsafe and logged.
C27_Witness ==
    /\ returned.op = "play_animation"
    /\ returned.kind = "code"
    /\ returned.code[1].stmt = "Transform"
    /\ ret.op = "suggest_transform_target"
    /\ ~ ret.success
    /\ Cardinality(Live) = 2
    /\ self_operations[Len(self_operations)].operation_type = "animation"

\* C28: each of wait, add_comment and start_step calls next_step() exactly
\* once (current_step increases by 1 and one snapshot is pushed) and leaves
\* the set of live elements unchanged.
C28_BookkeepingSteps ==
    [][returned'.op \in {"wait", "add_comment", "start_step"}
          => /\ current_step' = current_step + 1
             /\ Len(history') = Len(history) + 1
             /\ DOMAIN elements' = DOMAIN elements]_vars

\* C29: in every reachable manager state the history length equals
\* current_step; next_step increases both by exactly one and leaves the live
\* elements unchanged; no other operation changes current_step or the
\* history length, so current_step never decreases.
C29_HistoryTracksStep ==
    /\ [](Len(history) = current_step)
    /\ [][/\ ret'.op = "next_step"
              => /\ current_step' = current_step + 1
                 /\ Len(history') = Len(history) + 1
                 /\ elements' = elements
          /\ ret'.op # "next_step"
              => /\ current_step' = current_step
                 /\ Len(history') = Len(history)
          /\ current_step' >= current_step]_vars

\* After a step, another call has changed the registry.
C29_Witness ==
    /\ current_step > 0
    /\ Len(history) = current_step
    /\ ret.op = "add_element"
    /\ ret.success
    /\ Live # {}

\* The physical lines of a program text that holds the fragment of every
\* operation from the i-th on as it was logged, in log order: one physical
\* line per line of a fragment.
RECURSIVE C30_Fragments(_, _)
C30_Fragments(ops, i) ==
    IF i > Len(ops) THEN <<>>
    ELSE [j \in 1..Len(ops[i].code) |-> <<ops[i].code[j]>>]
             \o C30_Fragments(ops, i + 1)

\* C30: build emits the code fragment of every logged operation exactly once
\* and in log order, and changes neither the operation log nor the registry,
\* so two consecutive build calls return the same program text.
C30_BuildReplaysLog ==
    [][returned'.op = "build"
          => /\ returned'.code.body = C30_Fragments(self_operations, 1)
             /\ UNCHANGED <<self_operations, elements, current_step, history>>
             /\ returned.op = "build" => returned'.code = returned.code]_vars

\* C31: the visualize step is executed at most once per run: once execute
\* has run, the run never returns to visualize, including after a structure
\* error and after empty generated code.
C31_VisualizeOnce ==
    /\ trace.visualize <= 1
    /\ trace.execute >= 1 => pc # "visualize"

\* Execute found no code to run, a structure error, and the run went on to
\* debug.
C31_Witness ==
    /\ pc = "debug"
    /\ last.node = "execute"
    /\ st.manim_code = ""
    /\ st.error_type = "structure"
    /\ trace.visualize = 1

\* C32: when suggest_transform_target returns can_transform=True, the
\* source's bbox has the requested width and height and the centre it had
\* before, it overlaps no other live element whatever that element's zone,
\* and nothing else in the registry is changed.
C32_TransformEffect ==
    [][\A name \in Names, size \in TransformSizes :
          (suggest_transform_target(name, size[1], size[2]) /\ ret'.success) =>
              /\ name \in Live
              /\ DOMAIN elements' = Live
              /\ width(elements'[name].bbox) = size[1]
              /\ height(elements'[name].bbox) = size[2]
              /\ center(elements'[name].bbox) = center(elements[name].bbox)
              /\ elements'[name] =
                     [elements[name] EXCEPT !.bbox = elements'[name].bbox]
              /\ \A other \in Live \ {name} :
                     /\ elements'[other] = elements[other]
                     /\ ~ overlaps(elements'[name].bbox, elements'[other].bbox,
                                   MARGIN)]_vars

\* A transform to the wide size succeeded while an element of another zone
\* was live.
C32_Witness ==
    /\ ret.op = "suggest_transform_target"
    /\ ret.success
    /\ ret.name \in Live
    /\ width(elements[ret.name].bbox) = 900
    /\ \E other \in Live \ {ret.name} :
           elements[other].zone # elements[ret.name].zone

\* C33: a snapshot pushed by next_step keeps recording, for every element
\* in it, the zone and the bbox the element had when the snapshot was
\* taken, whatever add_element, remove_element, clear_non_persistent or
\* suggest_transform_target calls follow.
C33_SnapshotsFrozen ==
    [][\A i \in 1..Len(history) :
          /\ DOMAIN history'[i] = DOMAIN history[i]
          /\ \A n \in DOMAIN history[i] :
                 /\ history'[i][n].elem.zone = history[i][n].elem.zone
                 /\ history'[i][n].elem.bbox = history[i][n].elem.bbox]_vars

\* C34: animate_property on a live target appends exactly one operation and
\* leaves every bbox of the scene registry unchanged, also for the resizing
\* property scale; on a target that is not live it returns an error string
\* and appends no operation.
C34_AnimatePropertyOutcome ==
    [][\A target \in BuilderNames, property_name \in {"scale", "set_color"} :
          builder_animate_property(target, property_name) =>
              IF target \in Live
              THEN /\ returned'.kind = "code"
                   /\ AppendedOne("animate_property")
                   /\ self_operations'[Len(self_operations')].affects_elements
                          = <<target>>
                   /\ elements' = elements
              ELSE /\ returned'.kind = "error"
                   /\ UNCHANGED <<self_operations, elements>>]_vars

\* The scale of a live element was animated and logged.
C34_Witness ==
    /\ returned.op = "animate_property"
    /\ returned.kind = "code"
    /\ returned.code[1].stmt = "animate.scale"
    /\ returned.code[1].names[1] \in Live
    /\ self_operations[Len(self_operations)].operation_type = "animate_property"

\* C35: should_skip_review never returns skip=True for code that fails the
\* syntax compile-check or has no Scene class, for either quality threshold
\* the engine uses (80 or 70) and any counts of FadeOut and Transform.
C35_NoSkipOfBrokenCode ==
    (engine # <<>> /\ engine.verdict.skip)
        => (engine.code.compiles /\ engine.code.class_Scene)

\* C37: when process_problem calls run concurrently on one MathTutorEngineV2
\* instance and interleave at await points, each call makes at most
\* max_debug_attempts debug-agent calls and reports in its result its own
\* number of debug attempts and the code it executed last.
C37_CallsIsolated ==
    \A c \in EngineCalls :
        /\ engine.calls[c].debug_calls <= engine.max_debug_attempts
        /\ engine.calls[c].pc = "done" =>
               /\ engine.calls[c].result.debug_attempts
                      = engine.calls[c].debug_calls
               /\ engine.calls[c].result.final_code
                      = engine.calls[c].current_code

\* C38: ProcessProblemUseCase.execute returns success=True only when a video
\* was rendered (video_path is not None); it renders at most
\* max_debug_attempts + 1 times and calls debug_code at most
\* max_debug_attempts times.
C38_SuccessMeansVideo ==
    /\ engine.renders <= engine.max_debug_attempts + 1
    /\ engine.debug_calls <= engine.max_debug_attempts
    /\ (engine.pc = "done" /\ engine.result.success)
           => engine.result.video_path # {}

\* C39: with the review agent disabled (enable_review false),
\* MathTutorEngine.process_problem never invokes the review agent, also not
\* inside the execute-and-debug loop after a failed render.
C39_DisabledReviewNeverCalled ==
    ~ engine.enable_review_agent => engine.review_calls = 0

\* C36: with add_element, remove_element and clear_non_persistent only, a
\* zone never holds more than 5 live elements, because any two boxes placed
\* at the same candidate slot overlap: two live elements of a zone never sit
\* at the same one of the five candidate slots.
C36_FivePerZone ==
    /\ \A zone \in KnownZones : Cardinality(list_elements(zone)) <= 5
    /\ \A i \in 1..5 :
           LET zone_bbox == ZONE_BOUNDS["center"]
               narrow == candidates(zone_bbox, 180, 72)[i]
               wide == candidates(zone_bbox, 360, 72)[i]
           IN overlaps(BoxAt(narrow[1], narrow[2], 180, 72),
                       BoxAt(wide[1], wide[2], 360, 72), MARGIN)
    /\ \A n1 \in Live, n2 \in Live :
           (n1 < n2 /\ elements[n1].zone = elements[n2].zone) =>
               LET zone_bbox == ZONE_BOUNDS[elements[n1].zone]
                   b1 == elements[n1].bbox
                   b2 == elements[n2].bbox
                   c1 == candidates(zone_bbox, width(b1), height(b1))
                   c2 == candidates(zone_bbox, width(b2), height(b2))
               IN \A i \in 1..5 :
                      ~ (center(b1) = c1[i] /\ center(b2) = c2[i])

\* A sixth element was refused by a zone that holds five.
C36_Witness ==
    /\ ret.op = "add_element"
    /\ ~ ret.success
    /\ ret.name \notin Live
    /\ Cardinality(list_elements(ret.zone)) = 5
    /\ \E n1 \in Live, n2 \in Live :
           width(elements[n1].bbox) # width(elements[n2].bbox)

====
